---- MODULE Spec2Model ----
(***************************************************************************)
(* A model of the file repository of vscode-sync-settings: the profile    *)
(* inheritance and diff/merge engine (class FileRepository, on top of the *)
(* abstract class Repository).                                            *)
(***************************************************************************)
EXTENDS Integers, Sequences, FiniteSets, TLC

(***************************************************************************)
(* Bounds of the model.                                                    *)
(***************************************************************************)
\* longest disabled/enabled list of a base extension list drawn as input
MaxBaseLen == 2
\* longest disabled/enabled/uninstall list of an extension diff drawn as input
MaxDiffLen == 2
\* longest list of a stored extension document drawn as input
MaxDocLen == 1
\* most operations (serializeProfile, restoreProfile, a change made in the editor) of one
\* behaviour of the specification of the profile operations
MaxOps == 3

(***************************************************************************)
(* State of the set-diff algebra: the inputs of one computation and its   *)
(* results.                                                                *)
(***************************************************************************)
VARIABLES
    algBase,    \* the base list handed to applyExtensionsDiff (the ancestor's list)
    algEditor,  \* the live list handed to serializeExtensions
    algDiff,    \* the diff: computed by serializeExtensions, or drawn as input
    algOnce,    \* applyExtensionsDiff(algBase, algDiff)
    algTwice,   \* applyExtensionsDiff(algOnce, algDiff)
    algPc       \* "live", "diff", "once", "twice"

algVars == <<algBase, algEditor, algDiff, algOnce, algTwice, algPc>>

(***************************************************************************)
(* The extension documents of the profile tree on disk.                    *)
(***************************************************************************)
VARIABLES
    profileYml,         \* profiles/<name>/profile.yml: the name in extends, "" when there is none
    extensionsYml,      \* profiles/<name>/data/extensions.yml
    extensionsOldYml    \* profiles/<name>/extensions.yml (legacy path)

extDiskVars == <<profileYml, extensionsYml, extensionsOldYml>>

(***************************************************************************)
(* The last call of listProfileExtensions and its result.                  *)
(***************************************************************************)
VARIABLES
    listedProfile,  \* the profile listProfileExtensions was last called for, "" before any call
    listed          \* the list it returned

listVars == <<listedProfile, listed>>

(***************************************************************************)
(* The repository object, and the handler that ran last.                   *)
(***************************************************************************)
VARIABLES
    _profile,       \* Repository._profile: the selected profile, '' after construction
    _initialized,   \* Repository._initialized
    called,         \* the handler that ran last, "" before any
    outcome         \* "ok", or the error the handler threw

repoVars == <<_profile, _initialized, called, outcome>>

(***************************************************************************)
(* Snippets: the snippet files of the profiles, the live snippets          *)
(* directory of the editor, and the removal diff serializeSnippets built.  *)
(***************************************************************************)
VARIABLES
    snippetsDir,        \* profiles/<name>/data/snippets/**: file name -> content
    snippetsDiffYml,    \* profiles/<name>/data/snippets.diff.yml
    editorSnippets,     \* <userDataPath>/snippets/**: file name -> content
    removed             \* the local removed of the last serializeSnippets

snippetVars == <<snippetsDir, snippetsDiffYml, editorSnippets, removed>>

(***************************************************************************)
(* UI state: the key-value store of the editor, the extensions the editor  *)
(* has, the UI-state documents of the profiles, and the diff               *)
(* serializeUIState built.                                                 *)
(***************************************************************************)
VARIABLES
    editorExtensions,   \* extension id -> "absent", "enabled" or "disabled" in the editor
    stateDB,            \* ItemTable of <userDataPath>/.../state.vscdb: key -> value
    uiStateYml,         \* profiles/<name>/data/ui-state.yml
    uiStateDiffYml,     \* profiles/<name>/data/ui-state.diff.yml
    uiDiff              \* { modified, removed } of the last serializeUIState

uiVars == <<editorExtensions, stateDB, uiStateYml, uiStateDiffYml, uiDiff>>

(***************************************************************************)
(* Settings and key bindings: the documents of the editor and of the       *)
(* profiles.                                                               *)
(***************************************************************************)
VARIABLES
    settingsJson,           \* <userDataPath>/settings.json
    keybindingsJson,        \* <userDataPath>/keybindings.json
    profileSettingsJson,    \* profiles/<name>/data/settings.json
    profileKeybindingsJson  \* profiles/<name>/data/keybindings*.json: file name -> document

jsoncVars == <<settingsJson, keybindingsJson, profileSettingsJson, profileKeybindingsJson>>

(***************************************************************************)
(* The sync policy: the configuration of the editor, the sync-settings     *)
(* documents of the profiles, and the commands of the host.                *)
(***************************************************************************)
VARIABLES
    config,         \* getConfiguration('syncSettings'): property -> globalValue, where one is set
    syncYml,        \* profiles/<name>/.sync.yml
    configYml,      \* profiles/<name>/config.yml (legacy path)
    commands        \* whether the host has the commands that enable and disable an extension

syncVars == <<config, syncYml, configYml, commands>>

(***************************************************************************)
(* restoreProfile in progress, and the bookkeeping of the calls.           *)
(***************************************************************************)
VARIABLES
    pc,             \* "idle", or where restoreProfile stands: "confirm", "restore"
    syncSettings,   \* the local syncSettings of restoreProfile
    resources,      \* the local resources
    restart,        \* the local restart
    reloadWindow,   \* the local reloadWindow
    restored,       \* the resources the loop of restoreProfile has restored so far
    answer,         \* the result of the confirmation: "" (not asked), "Yes", "dismissed"
    triggered,      \* "", "restartApp" or "reloadWindow": what the last restoreProfile triggered
    serialized,     \* the profile and the editor at the last complete serializeProfile
    captured,       \* the steps the last serializeProfile completed, in the order it took them
    ops             \* the number of operations so far

profileVars == <<pc, syncSettings, resources, restart, reloadWindow, restored, answer, triggered, serialized,
                 captured, ops>>

(***************************************************************************)
(* The calls restoreExtensions made to the host.                           *)
(***************************************************************************)
VARIABLES
    issued,     \* the calls of the last restoreExtensions, in order: <<command, id>>
    failed      \* the commands of the host that returned false during it

hostVars == <<issued, failed>>

(***************************************************************************)
(* The directories of the profiles.                                        *)
(***************************************************************************)
VARIABLES
    profileDirs     \* the names under <rootPath>/profiles/

treeVars == <<profileDirs>>

vars == <<algVars, extDiskVars, listVars, repoVars, snippetVars, uiVars, jsoncVars, syncVars, profileVars,
          hostVars, treeVars>>

Profiles == {"A", "B", "C"}

\* a file that does not exist
Absent == [absent |-> TRUE]

Exists(file) == file # Absent

\* what each specification leaves alone: the state of the other ones
algOthers == <<extDiskVars, listVars, repoVars, snippetVars, uiVars, jsoncVars, syncVars, profileVars,
               hostVars, treeVars>>
chainOthers == <<algVars, repoVars, snippetVars, uiVars, jsoncVars, syncVars, profileVars, hostVars, treeVars>>
snippetOthers == <<algVars, extensionsYml, extensionsOldYml, listVars, uiVars, jsoncVars, syncVars, profileVars,
                   hostVars, treeVars>>
uiOthers == <<algVars, extensionsYml, extensionsOldYml, listVars, snippetVars, jsoncVars, syncVars, profileVars,
              hostVars, treeVars>>
profileOthers == <<algVars, listVars, hostVars, treeVars>>

(***************************************************************************)
(* Extension identities.  An ExtensionId is { id, uuid }; id is the merge *)
(* key, uuid is carried along and never compared.                         *)
(***************************************************************************)
ExtIds == {"a.x", "b.y"}

NIL_UUID == "00000000-0000-0000-0000-000000000000"

\* the marketplace uuid a structured record of this id carries
UuidOf(id) == IF id = "a.x" THEN "uuid-a.x" ELSE "uuid-b.y"

ExtensionId(id) == [id |-> id, uuid |-> UuidOf(id)]

SeqsUpTo(S, n) == UNION {[1..k -> S] : k \in 0..n}

\* the ids of a list of ExtensionId records: list.map(({ id }) => id)
Ids(list) == [i \in 1..Len(list) |-> list[i].id]

IdSet(list) == {list[i].id : i \in 1..Len(list)}

(***************************************************************************)
(* Array helpers of the language runtime.                                  *)
(***************************************************************************)
\* Array.prototype.findIndex((item) => item.id === id): 0 stands for -1
FindIndex(list, id) ==
    IF \E i \in 1..Len(list) : list[i].id = id
    THEN CHOOSE i \in 1..Len(list) : list[i].id = id /\ \A j \in 1..(i - 1) : list[j].id # id
    ELSE 0

\* Array.prototype.splice(index, 1)
Splice(list, index) == SubSeq(list, 1, index - 1) \o SubSeq(list, index + 1, Len(list))

\* Array.prototype.some((item) => item.id === id)
Some(list, id) == \E i \in 1..Len(list) : list[i].id = id

(***************************************************************************)
(* FileRepository.applyExtensionsDiff                                      *)
(***************************************************************************)
\* a plausible slip: the extension is pushed without looking for it in disabled first
ApplyDisabledExt_AlwaysPush(list, ext) ==
    LET index == FindIndex(list.enabled, ext.id)
        enabled == IF index # 0 THEN Splice(list.enabled, index) ELSE list.enabled
    IN [disabled |-> Append(list.disabled, ext), enabled |-> enabled]

\* one round of the first loop: for(const ext of diff.disabled)
ApplyDisabledExt(list, ext) ==
    LET index == FindIndex(list.enabled, ext.id)
        enabled == IF index # 0 THEN Splice(list.enabled, index) ELSE list.enabled
        disabled == IF ~Some(list.disabled, ext.id) THEN Append(list.disabled, ext) ELSE list.disabled
    IN [disabled |-> disabled, enabled |-> enabled]

\* one round of the second loop: for(const ext of diff.enabled)
ApplyEnabledExt(list, ext) ==
    LET index == FindIndex(list.disabled, ext.id)
        disabled == IF index # 0 THEN Splice(list.disabled, index) ELSE list.disabled
        enabled == IF ~Some(list.enabled, ext.id) THEN Append(list.enabled, ext) ELSE list.enabled
    IN [disabled |-> disabled, enabled |-> enabled]

\* one round of the third loop: for(const { id } of diff.uninstall)
ApplyUninstallExt(list, ext) ==
    LET index == FindIndex(list.disabled, ext.id)
    IN IF index # 0
       THEN [disabled |-> Splice(list.disabled, index), enabled |-> list.enabled]
       ELSE LET index2 == FindIndex(list.enabled, ext.id)
            IN IF index2 # 0
               THEN [disabled |-> list.disabled, enabled |-> Splice(list.enabled, index2)]
               ELSE list

RECURSIVE ApplyDisabledLoop(_, _, _)
ApplyDisabledLoop(list, exts, k) ==
    IF k > Len(exts) THEN list ELSE ApplyDisabledLoop(ApplyDisabledExt(list, exts[k]), exts, k + 1)

RECURSIVE ApplyEnabledLoop(_, _, _)
ApplyEnabledLoop(list, exts, k) ==
    IF k > Len(exts) THEN list ELSE ApplyEnabledLoop(ApplyEnabledExt(list, exts[k]), exts, k + 1)

RECURSIVE ApplyUninstallLoop(_, _, _)
ApplyUninstallLoop(list, exts, k) ==
    IF k > Len(exts) THEN list ELSE ApplyUninstallLoop(ApplyUninstallExt(list, exts[k]), exts, k + 1)

\* if(diff.uninstall): the optional field is set
HasUninstall(diff) == "uninstall" \in DOMAIN diff

applyExtensionsDiff(base, diff) ==
    LET afterDisabled == ApplyDisabledLoop([disabled |-> base.disabled, enabled |-> base.enabled], diff.disabled, 1)
        afterEnabled == ApplyEnabledLoop(afterDisabled, diff.enabled, 1)
    IN IF ~HasUninstall(diff)
       THEN afterEnabled
       ELSE ApplyUninstallLoop(afterEnabled, diff.uninstall, 1)

(***************************************************************************)
(* The diff of FileRepository.serializeExtensions for an inheriting       *)
(* profile: profile is the ancestor's effective list, editor the live one.*)
(***************************************************************************)
\* utils/array-diff: the elements of a that are not in b, in a's order
arrayDiff(a, b) == SelectSeq(a, LAMBDA x : \A j \in 1..Len(b) : b[j] # x)

\* ids[ext.id] = ext over [...profile.disabled, ...profile.enabled, ...editor.disabled, ...editor.enabled]
IdsRecord(profile, editor, id) ==
    LET all == profile.disabled \o profile.enabled \o editor.disabled \o editor.enabled
        last == CHOOSE i \in 1..Len(all) : all[i].id = id /\ \A j \in (i + 1)..Len(all) : all[j].id # id
    IN all[last]

MapIds(profile, editor, ids) == [i \in 1..Len(ids) |-> IdsRecord(profile, editor, ids[i])]

\* a plausible slip: the uninstall list is never computed
ExtensionsDiff_NoUninstall(profile, editor) ==
    [disabled |-> MapIds(profile, editor, arrayDiff(Ids(editor.disabled), Ids(profile.disabled))),
     enabled |-> MapIds(profile, editor, arrayDiff(Ids(editor.enabled), Ids(profile.enabled)))]

ExtensionsDiff(profile, editor) ==
    LET disabled == MapIds(profile, editor, arrayDiff(Ids(editor.disabled), Ids(profile.disabled)))
        enabled == MapIds(profile, editor, arrayDiff(Ids(editor.enabled), Ids(profile.enabled)))
        uninstall == MapIds(profile, editor, arrayDiff(Ids(profile.disabled \o profile.enabled), Ids(editor.disabled \o editor.enabled)))
    IN IF Len(uninstall) > 0
       THEN [disabled |-> disabled, enabled |-> enabled, uninstall |-> uninstall]
       ELSE [disabled |-> disabled, enabled |-> enabled]


EmptyList == [disabled |-> <<>>, enabled |-> <<>>]

StructuredSeqs(n) == SeqsUpTo({ExtensionId(id) : id \in ExtIds}, n)

BaseLists == {[disabled |-> d, enabled |-> e] : d \in StructuredSeqs(MaxBaseLen), e \in StructuredSeqs(MaxBaseLen)}

DiffLists ==
    {[disabled |-> d, enabled |-> e] : d \in StructuredSeqs(MaxDiffLen), e \in StructuredSeqs(MaxDiffLen)}
    \cup {[disabled |-> d, enabled |-> e, uninstall |-> u] :
            d \in StructuredSeqs(MaxDiffLen), e \in StructuredSeqs(MaxDiffLen), u \in StructuredSeqs(MaxDiffLen)}

\* the algebra is not in use
AlgOff ==
    /\ algBase = EmptyList /\ algEditor = EmptyList /\ algDiff = EmptyList
    /\ algOnce = EmptyList /\ algTwice = EmptyList /\ algPc = "off"

AlgInit ==
    /\ algBase \in BaseLists
    /\ \/ algPc = "live" /\ algEditor \in BaseLists /\ algDiff = EmptyList
       \/ algPc = "diff" /\ algEditor = EmptyList /\ algDiff \in DiffLists
    /\ algOnce = EmptyList
    /\ algTwice = EmptyList

\* serializeExtensions computes the diff of the live list against the base
AlgComputeDiff ==
    /\ algPc = "live"
    /\ algDiff' = ExtensionsDiff(algBase, algEditor)
    /\ algPc' = "computed"
    /\ UNCHANGED <<algBase, algEditor, algOnce, algTwice, algOthers>>

\* listProfileExtensions replays the diff on the base
AlgApplyOnce ==
    /\ algPc \in {"diff", "computed"}
    /\ algOnce' = applyExtensionsDiff(algBase, algDiff)
    /\ algPc' = IF algPc = "diff" THEN "once" ELSE "replayed"
    /\ UNCHANGED <<algBase, algEditor, algDiff, algTwice, algOthers>>

\* the same diff is applied to the result again
AlgApplyTwice ==
    /\ algPc = "once"
    /\ algTwice' = applyExtensionsDiff(algOnce, algDiff)
    /\ algPc' = "twice"
    /\ UNCHANGED <<algBase, algEditor, algDiff, algOnce, algOthers>>

AlgNext == AlgComputeDiff \/ AlgApplyOnce \/ AlgApplyTwice

\* no profile tree
ExtDiskOff ==
    /\ profileYml = [p \in Profiles |-> ""]
    /\ extensionsYml = [p \in Profiles |-> Absent]
    /\ extensionsOldYml = [p \in Profiles |-> Absent]

ListOff == listedProfile = "" /\ listed = EmptyList

\* the repository as constructed: no profile selected, not initialized
RepoOff == _profile = "" /\ _initialized = FALSE /\ called = "" /\ outcome = "ok"

\* no snippet anywhere
SnippetsOff ==
    /\ snippetsDir = [p \in Profiles |-> << >>]
    /\ snippetsDiffYml = [p \in Profiles |-> Absent]
    /\ editorSnippets = << >>
    /\ removed = << >>

\* no UI state anywhere, no extension in the editor
UIStateOff ==
    /\ editorExtensions = [id \in ExtIds |-> "absent"]
    /\ stateDB = << >>
    /\ uiStateYml = [p \in Profiles |-> Absent]
    /\ uiStateDiffYml = [p \in Profiles |-> Absent]
    /\ uiDiff = [modified |-> << >>, removed |-> << >>]

\* no settings or key bindings anywhere
JsoncOff ==
    /\ settingsJson = Absent
    /\ keybindingsJson = Absent
    /\ profileSettingsJson = [p \in Profiles |-> Absent]
    /\ profileKeybindingsJson = [p \in Profiles |-> << >>]

\* no sync policy set or stored
SyncOff ==
    /\ config = << >>
    /\ syncYml = [p \in Profiles |-> Absent]
    /\ configYml = [p \in Profiles |-> Absent]
    /\ commands = TRUE

\* no restoreProfile in progress, nothing serialized
ProfileOff ==
    /\ pc = "idle"
    /\ syncSettings = << >>
    /\ resources = << >>
    /\ restart = FALSE
    /\ reloadWindow = FALSE
    /\ restored = << >>
    /\ answer = ""
    /\ triggered = ""
    /\ serialized = Absent
    /\ captured = << >>
    /\ ops = 0

\* no call to the host recorded
HostOff == issued = << >> /\ failed = {}

\* every profile has its directory
TreeOff == profileDirs = Profiles

RestOff == JsoncOff /\ SyncOff /\ ProfileOff /\ HostOff /\ TreeOff

InitExtensionsDiff == AlgInit /\ ExtDiskOff /\ ListOff /\ RepoOff /\ SnippetsOff /\ UIStateOff /\ RestOff

SpecExtensionsDiff == InitExtensionsDiff /\ [][AlgNext]_vars

\* no duplicate id in either partition, and no id in both
NoDuplicates(list) == \A i, j \in 1..Len(list) : list[i].id = list[j].id => i = j

WellFormed(list) ==
    /\ NoDuplicates(list.disabled)
    /\ NoDuplicates(list.enabled)
    /\ IdSet(list.disabled) \cap IdSet(list.enabled) = {}

SameIdSets(a, b) == IdSet(a.disabled) = IdSet(b.disabled) /\ IdSet(a.enabled) = IdSet(b.enabled)

\* C1: for well-formed lists L1 (base) and L2 (live), applying to L1 the diff
\* serializeExtensions computes for L2 against L1 yields the disabled id set and the
\* enabled id set of L2.
C1_SetDiffCorrect ==
    (algPc = "replayed" /\ WellFormed(algBase) /\ WellFormed(algEditor)) => SameIdSets(algOnce, algEditor)

\* a replay in which one extension moved from enabled to disabled and another was uninstalled
C1_Witness ==
    /\ algPc = "replayed" /\ WellFormed(algBase) /\ WellFormed(algEditor)
    /\ HasUninstall(algDiff)
    /\ Len(algDiff.disabled) > 0
    /\ IdSet(algDiff.disabled) \subseteq IdSet(algBase.enabled)

\* C3 as stated: for every base list and every diff, applying the diff twice yields the
\* same disabled and enabled lists as applying it once.
C3_IdempotentEveryBase == algPc = "twice" => algTwice = algOnce

\* C3 as amended: for a well-formed base and every diff, the second application leaves the
\* disabled and enabled id sets alone, and leaves the lists themselves alone when no id is
\* in both the disabled and the enabled list of the diff.
C3_IdempotentWellFormed ==
    (algPc = "twice" /\ WellFormed(algBase)) =>
        /\ SameIdSets(algTwice, algOnce)
        /\ IdSet(algDiff.disabled) \cap IdSet(algDiff.enabled) = {} => algTwice = algOnce

\* a second application on a well-formed base, of a diff that changed both partitions and uninstalls
C3_Witness ==
    /\ algPc = "twice" /\ WellFormed(algBase)
    /\ IdSet(algDiff.disabled) \cap IdSet(algDiff.enabled) = {}
    /\ HasUninstall(algDiff) /\ Len(algDiff.uninstall) > 0
    /\ algOnce.disabled # algBase.disabled
    /\ algOnce.enabled # algBase.enabled

(***************************************************************************)
(* The profile tree on disk: profiles/<name>/...                          *)
(***************************************************************************)


\* FileRepository.loadProfileSettings: { extends? } of profile.yml, {} when the file is missing
loadProfileSettings(profile) == [extends |-> profileYml[profile]]

(***************************************************************************)
(* Stored extension documents.  An old document lists plain id strings, a *)
(* current one lists { id, uuid } records.                                 *)
(***************************************************************************)
\* a YAML scalar string in a stored list
StringItem(id) == [id |-> id, uuid |-> "(string)"]

\* typeof item === 'string'
IsString(item) == item.uuid = "(string)"

\* what (id) => ({ id, uuid: NIL_UUID }) makes of an item that is no string: its id is the record
ObjectAsId == "[object Object]"

\* list.map((id) => ({ id, uuid: NIL_UUID }))
MapNilUuid(list) ==
    [i \in 1..Len(list) |-> [id |-> IF IsString(list[i]) THEN list[i].id ELSE ObjectAsId, uuid |-> NIL_UUID]]

\* raw.X.length > 0 && typeof raw.X[0] === 'string' ? raw.X.map(...) : raw.X
DecodeList(list) == IF Len(list) > 0 /\ IsString(list[1]) THEN MapNilUuid(list) ELSE list

\* the decoding the stored uninstall list is meant to get (the list itself, like the other two)
DecodeUninstall_OwnList(raw) == DecodeList(raw.uninstall)

\* line 441: a list of strings in uninstall is replaced by the mapped *disabled* list
DecodeUninstall(raw) ==
    IF Len(raw.uninstall) > 0 /\ IsString(raw.uninstall[1]) THEN MapNilUuid(raw.disabled) ELSE raw.uninstall

\* the diff listProfileExtensions builds from the stored document of an inheriting profile
DecodeDiff(raw) ==
    IF "uninstall" \in DOMAIN raw
    THEN [disabled |-> DecodeList(raw.disabled), enabled |-> DecodeList(raw.enabled), uninstall |-> DecodeUninstall(raw)]
    ELSE [disabled |-> DecodeList(raw.disabled), enabled |-> DecodeList(raw.enabled)]

\* the stored diff as the document states it: every list decoded as itself
StoredDiff(raw) ==
    IF "uninstall" \in DOMAIN raw
    THEN [disabled |-> DecodeList(raw.disabled), enabled |-> DecodeList(raw.enabled), uninstall |-> DecodeUninstall_OwnList(raw)]
    ELSE [disabled |-> DecodeList(raw.disabled), enabled |-> DecodeList(raw.enabled)]

\* the document listProfileExtensions reads: the current path, else the legacy path
ExtensionsDocument(profile) ==
    IF Exists(extensionsYml[profile]) THEN extensionsYml[profile] ELSE extensionsOldYml[profile]

(***************************************************************************)
(* FileRepository.listProfileExtensions                                    *)
(***************************************************************************)
RECURSIVE listProfileExtensions(_)
listProfileExtensions(profile) ==
    LET settings == loadProfileSettings(profile)
        raw == ExtensionsDocument(profile)
    IN IF settings.extends = ""
       THEN IF ~Exists(raw)
            THEN [disabled |-> <<>>, enabled |-> <<>>]
            ELSE [disabled |-> DecodeList(raw.disabled), enabled |-> DecodeList(raw.enabled)]
       ELSE IF ~Exists(raw)
            THEN listProfileExtensions(settings.extends)
            ELSE applyExtensionsDiff(listProfileExtensions(settings.extends), DecodeDiff(raw))

(***************************************************************************)
(* The extension documents of an inheritance chain A <- B <- C, read back *)
(* by listProfileExtensions.                                               *)
(***************************************************************************)

Chain == [p \in Profiles |-> CASE p = "A" -> "" [] p = "B" -> "A" [] p = "C" -> "B"]

\* the lists of one stored document share an encoding
RawSeqs(format, n) ==
    SeqsUpTo({IF format = "strings" THEN StringItem(id) ELSE ExtensionId(id) : id \in ExtIds}, n)

BaselineDocuments ==
    UNION {{[disabled |-> d, enabled |-> e] : d \in RawSeqs(f, MaxDocLen), e \in RawSeqs(f, MaxDocLen)} :
            f \in {"strings", "records"}}

DiffDocuments ==
    BaselineDocuments \cup
    UNION {{[disabled |-> d, enabled |-> e, uninstall |-> u] :
              d \in RawSeqs(f, MaxDocLen), e \in RawSeqs(f, MaxDocLen), u \in RawSeqs(f, MaxDocLen)} :
            f \in {"strings", "records"}}

ChainInit ==
    /\ profileYml = Chain
    \* the tree is stored at the current paths, or (an old tree) at the legacy paths
    /\ \E legacy \in BOOLEAN, a \in BaselineDocuments \cup {Absent},
          b \in DiffDocuments \cup {Absent}, c \in DiffDocuments \cup {Absent} :
          LET doc == [p \in Profiles |-> CASE p = "A" -> a [] p = "B" -> b [] p = "C" -> c]
          IN /\ extensionsYml = [p \in Profiles |-> IF legacy THEN Absent ELSE doc[p]]
             /\ extensionsOldYml = [p \in Profiles |-> IF legacy THEN doc[p] ELSE Absent]
    /\ ListOff

ListProfileExtensions(profile) ==
    /\ listedProfile' = profile
    /\ listed' = listProfileExtensions(profile)
    /\ UNCHANGED <<extDiskVars, chainOthers>>

ChainNext == \E profile \in Profiles : ListProfileExtensions(profile)

InitExtensionsChain == ChainInit /\ AlgOff /\ RepoOff /\ SnippetsOff /\ UIStateOff /\ RestOff

SpecExtensionsChain == InitExtensionsChain /\ [][ChainNext]_vars

\* the stored document of a profile, and the baseline list a root document holds
OwnDocument(profile) == ExtensionsDocument(profile)

BaselineOf(profile) ==
    IF Exists(OwnDocument(profile))
    THEN [disabled |-> DecodeList(OwnDocument(profile).disabled), enabled |-> DecodeList(OwnDocument(profile).enabled)]
    ELSE EmptyList

\* C2: in a chain A <- B <- C where B and C each store a diff document,
\* listProfileExtensions(C) is apply(apply(baseline of A, diff_B), diff_C), every stored
\* diff replayed with its uninstall entries, oldest ancestor first.
C2_ChainComposition ==
    (listedProfile = "C" /\ Exists(OwnDocument("B")) /\ Exists(OwnDocument("C"))) =>
        listed = applyExtensionsDiff(applyExtensionsDiff(BaselineOf("A"), StoredDiff(OwnDocument("B"))),
                                     StoredDiff(OwnDocument("C")))

\* C4: with a well-formed baseline, the effective list of every level of the chain has no
\* id in both partitions, no duplicate id in a partition, and no id that the level's own
\* stored diff names in uninstall.
C4_MergedWellFormed ==
    (listedProfile # "" /\ WellFormed(BaselineOf("A"))) =>
        /\ WellFormed(listed)
        /\ (listedProfile # "A" /\ Exists(OwnDocument(listedProfile)) /\ HasUninstall(OwnDocument(listedProfile))) =>
              IdSet(OwnDocument(listedProfile).uninstall) \cap (IdSet(listed.disabled) \cup IdSet(listed.enabled)) = {}

(***************************************************************************)
(* Repository.setProfile and FileRepository.initialize                     *)
(***************************************************************************)
\* setProfile(profile): this._profile = profile; initialize() makes sure the directory of
\* the profile exists and sets _initialized
setProfile(profile) == [_profile |-> profile, _initialized |-> TRUE]

(***************************************************************************)
(* Snippets.                                                               *)
(***************************************************************************)
\* the snippet file names, in the order globby lists them
SnippetFiles == <<"bar.code-snippets", "foo.code-snippets">>

FileNames == {SnippetFiles[i] : i \in 1..Len(SnippetFiles)}

\* the contents a snippet file can have
Contents == {"v1", "v2"}

\* a directory: the files in it and their contents; a missing directory lists like an empty one
Directories == UNION {[names -> Contents] : names \in SUBSET FileNames}

Range(list) == {list[i] : i \in 1..Len(list)}

\* globby('**', { cwd }): the names of the files of a directory
Glob(dir) == SelectSeq(SnippetFiles, LAMBDA file : file \in DOMAIN dir)

\* createHash('SHA1').update(data).digest('hex')
SHA1(data) == <<"sha1", data>>

\* delete snippets[name] for every name listed
Without(index, names) == [name \in DOMAIN index \ names |-> index[name]]

\* for(const name of undefined)
NotIterable == [threw |-> "TypeError: diff.remove is not iterable"]

IsError(value) == "threw" \in DOMAIN value

\* FileRepository.listProfileSnippetHashes
RECURSIVE listProfileSnippetHashes(_)
listProfileSnippetHashes(profile) ==
    LET settings == loadProfileSettings(profile)
        dataPath == snippetsDir[profile]
        newFiles == [file \in DOMAIN dataPath |-> SHA1(dataPath[file])]
    IN IF settings.extends # ""
       THEN LET snippets == listProfileSnippetHashes(settings.extends)
                diff == snippetsDiffYml[profile]
            IN IF IsError(snippets) THEN snippets
               ELSE IF Exists(diff)
                    THEN IF "remove" \in DOMAIN diff
                         THEN newFiles @@ Without(snippets, Range(diff.remove))
                         ELSE NotIterable
                    ELSE newFiles @@ snippets
       ELSE newFiles

\* FileRepository.listProfileSnippetPaths: file name -> the profile whose directory holds the file
RECURSIVE listProfileSnippetPaths(_)
listProfileSnippetPaths(profile) ==
    LET settings == loadProfileSettings(profile)
        newFiles == [file \in DOMAIN snippetsDir[profile] |-> profile]
    IN IF settings.extends # ""
       THEN LET snippets == listProfileSnippetPaths(settings.extends)
                diff == snippetsDiffYml[profile]
            IN IF Exists(diff)
               THEN newFiles @@ Without(snippets, Range(diff.removed))
               ELSE newFiles @@ snippets
       ELSE newFiles

\* FileRepository.serializeSnippets for the selected profile: what it throws, its local
\* removed, and the diff document and the snippets directory of the profile afterwards
serializeSnippets(profileSettings) ==
    LET editor == Glob(editorSnippets)
    IN IF profileSettings.extends # ""
       THEN LET profile == listProfileSnippetHashes(profileSettings.extends)
            IN IF IsError(profile)
               THEN [threw |-> TRUE, removed |-> << >>, diff |-> snippetsDiffYml[_profile],
                     dir |-> snippetsDir[_profile]]
               ELSE LET removedFiles ==
                            IF Len(editor) > 0
                            THEN SelectSeq(editor, LAMBDA file : file \notin DOMAIN profile)
                            ELSE Glob(profile)
                        kept == SelectSeq(editor, LAMBDA file :
                                    ~(file \in DOMAIN profile /\ SHA1(editorSnippets[file]) = profile[file]))
                    IN [threw |-> FALSE,
                        removed |-> removedFiles,
                        diff |-> IF Len(removedFiles) > 0 THEN [removed |-> removedFiles] ELSE snippetsDiffYml[_profile],
                        dir |-> [file \in Range(kept) |-> editorSnippets[file]]]
       ELSE [threw |-> FALSE, removed |-> << >>, diff |-> snippetsDiffYml[_profile],
             dir |-> [file \in Range(editor) |-> editorSnippets[file]]]

\* a plausible slip: the live directory is not emptied before the files are copied
restoreSnippets_NotEmptied(profile) ==
    LET diff == snippetsDiffYml[profile]
        ignore == IF Exists(diff) THEN Range(diff.removed) ELSE {}
        snippets == listProfileSnippetPaths(profile)
    IN [name \in DOMAIN snippets \ ignore |-> snippetsDir[snippets[name]][name]] @@ editorSnippets

\* FileRepository.restoreSnippets: the live snippets directory afterwards
restoreSnippets(profile) ==
    LET emptied == << >>
        diff == snippetsDiffYml[profile]
        ignore == IF Exists(diff) THEN Range(diff.removed) ELSE {}
        snippets == listProfileSnippetPaths(profile)
    IN [name \in DOMAIN snippets \ ignore |-> snippetsDir[snippets[name]][name]] @@ emptied

SnippetsInit ==
    /\ profileYml = Chain
    /\ snippetsDir = [p \in Profiles |-> << >>]
    /\ snippetsDiffYml = [p \in Profiles |-> Absent]
    /\ editorSnippets \in Directories
    /\ removed = << >>

SnippetsSetProfile(profile) ==
    /\ _profile' = setProfile(profile)._profile
    /\ _initialized' = setProfile(profile)._initialized
    /\ called' = "setProfile"
    /\ outcome' = "ok"
    /\ UNCHANGED <<profileYml, snippetVars, snippetOthers>>

\* the user adds, edits or deletes snippet files in the editor
SnippetsEdit(dir) ==
    /\ dir # editorSnippets
    /\ editorSnippets' = dir
    /\ called' = ""
    /\ outcome' = "ok"
    /\ UNCHANGED <<_profile, _initialized, profileYml, snippetsDir, snippetsDiffYml, removed, snippetOthers>>

SerializeSnippets ==
    /\ _initialized
    /\ LET result == serializeSnippets(loadProfileSettings(_profile))
       IN /\ snippetsDiffYml' = [snippetsDiffYml EXCEPT ![_profile] = result.diff]
          /\ snippetsDir' = [snippetsDir EXCEPT ![_profile] = result.dir]
          /\ removed' = result.removed
          /\ outcome' = IF result.threw THEN NotIterable.threw ELSE "ok"
    /\ called' = "serializeSnippets"
    /\ UNCHANGED <<_profile, _initialized, profileYml, editorSnippets, snippetOthers>>

RestoreSnippets ==
    /\ _initialized
    /\ editorSnippets' = restoreSnippets(_profile)
    /\ called' = "restoreSnippets"
    /\ outcome' = "ok"
    /\ UNCHANGED <<_profile, _initialized, profileYml, snippetsDir, snippetsDiffYml, removed, snippetOthers>>

SnippetsNext ==
    \/ \E profile \in Profiles : SnippetsSetProfile(profile)
    \/ \E dir \in Directories : SnippetsEdit(dir)
    \/ SerializeSnippets
    \/ RestoreSnippets

InitSnippets ==
    /\ SnippetsInit /\ RepoOff /\ AlgOff /\ ListOff /\ UIStateOff /\ RestOff
    /\ extensionsYml = [p \in Profiles |-> Absent]
    /\ extensionsOldYml = [p \in Profiles |-> Absent]

SpecSnippets == InitSnippets /\ [][SnippetsNext]_vars

\* the names and contents a profile effectively holds: the ancestor's, minus the names of
\* the profile's removal diff, overlaid by the files of the profile's own directory
RECURSIVE EffectiveSnippets(_)
EffectiveSnippets(profile) ==
    LET own == snippetsDir[profile]
        parent == profileYml[profile]
        dropped == IF Exists(snippetsDiffYml[profile]) THEN Range(snippetsDiffYml[profile].removed) ELSE {}
    IN IF parent = ""
       THEN own
       ELSE [name \in DOMAIN own \cup (DOMAIN EffectiveSnippets(parent) \ dropped) |->
                IF name \in DOMAIN own THEN own[name] ELSE EffectiveSnippets(parent)[name]]

LeafRemoved(profile) ==
    IF Exists(snippetsDiffYml[profile]) THEN Range(snippetsDiffYml[profile].removed) ELSE {}

\* C6: serializeSnippets of an inheriting profile records as removed exactly the names of
\* the ancestor's effective hash index that are absent from the live snippets set.
C6_RemovedIsAncestorMinusLive ==
    (called = "serializeSnippets" /\ outcome = "ok" /\ profileYml[_profile] # "") =>
        LET expected == DOMAIN listProfileSnippetHashes(profileYml[_profile]) \ DOMAIN editorSnippets
        IN /\ Range(removed) = expected
           /\ expected # {} =>
                 /\ Exists(snippetsDiffYml[_profile])
                 /\ Range(snippetsDiffYml[_profile].removed) = expected

\* C7: restoreSnippets leaves the live directory holding exactly the files of the
\* profile's effective index whose names are not in the leaf's removal diff.
C7_RestoreSnippetsExact ==
    called = "restoreSnippets" =>
        /\ DOMAIN editorSnippets = DOMAIN EffectiveSnippets(_profile) \ LeafRemoved(_profile)
        /\ \A name \in DOMAIN editorSnippets : editorSnippets[name] = EffectiveSnippets(_profile)[name]

\* a restore of the leaf C that copies a file of an ancestor, skips a file an ancestor
\* has because the leaf's diff lists it, below a B that has a removal diff of its own
C7_Witness ==
    /\ called = "restoreSnippets" /\ _profile = "C"
    /\ Exists(snippetsDiffYml["B"])
    /\ \E name \in LeafRemoved("C") : name \in DOMAIN EffectiveSnippets("B")
    /\ \E name \in DOMAIN editorSnippets : name \notin DOMAIN snippetsDir["C"]

(***************************************************************************)
(* The extensions of the editor.                                           *)
(***************************************************************************)
\* the order the editor and the extensions directory enumerate extensions in
ExtOrder == <<"a.x", "b.y">>

\* Repository.listEditorExtensions: the enabled extensions are those the editor has loaded,
\* the disabled ones those found in the extensions directory only; an ignored id is in
\* neither list (the editor of the model has no built-in extension)
listEditorExtensions(ignoredExtensions) ==
    LET having(state) == SelectSeq(ExtOrder, LAMBDA id :
                             editorExtensions[id] = state /\ id \notin ignoredExtensions)
        records(ids) == [i \in 1..Len(ids) |-> ExtensionId(ids[i])]
    IN [disabled |-> records(having("disabled")), enabled |-> records(having("enabled"))]

(***************************************************************************)
(* UI state.  A value of the key-value store is a string, modelled as the  *)
(* sequence of its parts, or a structured (non-string) value.              *)
(***************************************************************************)
\* getExtensionDataUri(), os.homedir() and the portable placeholder
\* (a string is the sequence of its parts; the extension-data path lies under the home
\* directory)
HomeDirectory == <<"<homedir>">>
ExtDataPath == HomeDirectory \o <<"/.editor/extension-data">>
Placeholder == <<"%%EXTENSION_DATA_PATH%%">>

String(parts) == [string |-> parts]
Structured(data) == [object |-> data]

\* typeof value === 'string'
IsStringValue(value) == "string" \in DOMAIN value

\* the parts with every occurrence of from, found from left to right, replaced by to
RECURSIVE ReplaceParts(_, _, _)
ReplaceParts(parts, from, to) ==
    IF Len(parts) < Len(from)
    THEN parts
    ELSE IF SubSeq(parts, 1, Len(from)) = from
         THEN to \o ReplaceParts(SubSeq(parts, Len(from) + 1, Len(parts)), from, to)
         ELSE <<Head(parts)>> \o ReplaceParts(Tail(parts), from, to)

\* String.prototype.replaceAll and String.prototype.includes on the parts of a string
replaceAll(value, from, to) == String(ReplaceParts(value.string, from, to))

includes(value, part) ==
    \E i \in 1..(Len(value.string) - Len(part) + 1) : SubSeq(value.string, i, i + Len(part) - 1) = part

\* the keys of the store, in the order of Object.keys; those LIKE 'workbench.%'
UIKeys == <<"a.x", "workbench.view">>
WorkbenchKeys == {"workbench.view"}
Keys(properties) == SelectSeq(UIKeys, LAMBDA key : key \in DOMAIN properties)

\* the values the editor writes under a key
UIValues(key) ==
    IF key \in WorkbenchKeys
    THEN {String(<<"x">>), String(ExtDataPath \o <<"/x">>), String(HomeDirectory \o <<"/x">>), Structured("view")}
    ELSE {String(<<"x">>)}

\* readStateDB: the rows whose key is in keys or LIKE 'workbench.%'
readStateDB(keys) ==
    [key \in {k \in DOMAIN stateDB : k \in keys \/ k \in WorkbenchKeys} |-> stateDB[key]]

\* a plausible slip: no value is skipped
listEditorUIStateProperties_KeepAll(extensions) ==
    LET keys == IdSet(extensions.disabled) \cup IdSet(extensions.enabled)
        data == readStateDB(keys)
    IN [key \in DOMAIN data |-> IF IsStringValue(data[key])
                                THEN replaceAll(data[key], ExtDataPath, Placeholder)
                                ELSE data[key]]

\* FileRepository.listEditorUIStateProperties
listEditorUIStateProperties(extensions) ==
    LET keys == IdSet(extensions.disabled) \cup IdSet(extensions.enabled)
        data == readStateDB(keys)
        value(key) == IF IsStringValue(data[key])
                      THEN replaceAll(data[key], ExtDataPath, Placeholder)
                      ELSE data[key]
        skipped(key) == IsStringValue(data[key]) /\ includes(value(key), HomeDirectory)
    IN [key \in {k \in DOMAIN data : ~skipped(k)} |-> value(key)]

\* FileRepository.loadUIStateDiff: Absent stands for undefined
loadUIStateDiff(profile) == uiStateDiffYml[profile]

\* a plausible slip: the keys of removed are not deleted
RECURSIVE listProfileUIStateProperties_NoRemoval(_)
listProfileUIStateProperties_NoRemoval(profile) ==
    LET settings == loadProfileSettings(profile)
    IN IF settings.extends = ""
       THEN IF ~Exists(uiStateYml[profile]) THEN << >> ELSE uiStateYml[profile]
       ELSE LET properties == listProfileUIStateProperties_NoRemoval(settings.extends)
                diff == loadUIStateDiff(profile)
            IN IF ~Exists(diff)
               THEN properties
               ELSE [key \in DOMAIN properties \cup DOMAIN diff.modified |->
                        IF key \in DOMAIN diff.modified THEN diff.modified[key] ELSE properties[key]]

\* FileRepository.listProfileUIStateProperties
RECURSIVE listProfileUIStateProperties(_)
listProfileUIStateProperties(profile) ==
    LET settings == loadProfileSettings(profile)
    IN IF settings.extends = ""
       THEN IF ~Exists(uiStateYml[profile]) THEN << >> ELSE uiStateYml[profile]
       ELSE LET properties == listProfileUIStateProperties(settings.extends)
                diff == loadUIStateDiff(profile)
            IN IF ~Exists(diff)
               THEN properties
               ELSE LET assigned == [key \in DOMAIN properties \cup DOMAIN diff.modified |->
                                        IF key \in DOMAIN diff.modified
                                        THEN diff.modified[key]
                                        ELSE properties[key]]
                    IN [key \in DOMAIN assigned \ Range(diff.removed) |-> assigned[key]]

\* value !== properties[key], where properties was parsed from a document: a string is
\* compared by value, a structured value is a different object than any parsed one, and a
\* missing key gives undefined
StrictNotEqual(value, properties, key) ==
    \/ key \notin DOMAIN properties
    \/ ~IsStringValue(value)
    \/ ~IsStringValue(properties[key])
    \/ value # properties[key]

\* isEmpty of a record
isEmpty(properties) == DOMAIN properties = {}

\* FileRepository.saveUIStateDiff: ui-state.diff.yml of the selected profile afterwards
saveUIStateDiff(diff) ==
    IF Len(diff.removed) > 0 \/ ~isEmpty(diff.modified) THEN diff ELSE uiStateDiffYml[_profile]

\* FileRepository.serializeUIState for the selected profile: the diff it computes and the
\* two UI-state documents of the profile afterwards
serializeUIState(profileSettings, extensions) ==
    LET editor == listEditorUIStateProperties(extensions)
    IN IF profileSettings.extends # ""
       THEN LET profile == listProfileUIStateProperties(profileSettings.extends)
                removedKeys == arrayDiff(Keys(profile), Keys(editor))
                modified == [key \in {k \in DOMAIN editor : StrictNotEqual(editor[k], profile, k)} |->
                                editor[key]]
                diff == [modified |-> modified, removed |-> removedKeys]
            IN [diff |-> diff, yml |-> uiStateYml[_profile], diffYml |-> saveUIStateDiff(diff)]
       ELSE [diff |-> [modified |-> << >>, removed |-> << >>], yml |-> editor,
             diffYml |-> uiStateDiffYml[_profile]]

\* FileRepository.restoreUIState: the store afterwards (INSERT OR REPLACE of every
\* property of the profile, the placeholder substituted back)
restoreUIState(profile) ==
    LET properties == listProfileUIStateProperties(profile)
        value(key) == IF IsStringValue(properties[key])
                      THEN replaceAll(properties[key], Placeholder, ExtDataPath)
                      ELSE properties[key]
    IN [key \in DOMAIN stateDB \cup DOMAIN properties |->
           IF key \in DOMAIN properties THEN value(key) ELSE stateDB[key]]

(***************************************************************************)
(* The sync policy of a profile.                                           *)
(***************************************************************************)
\* enum Resource, and the default of resources
DefaultResources == <<"extensions", "keybindings", "settings", "snippets", "uiState">>

SyncProperties == {"keybindingsPerPlatform", "ignoredExtensions", "ignoredSettings", "resources"}

\* record[property] ?? default
Get(record, property, default) == IF property \in DOMAIN record THEN record[property] ELSE default

SyncSettingsNotFound == [threw |-> "sync settings file of profile can not be found"]

NotInitialized == [threw |-> "The repository wasn't successfully initialized"]

\* a plausible slip: the guard is left out
checkInitialized_Skipped == "ok"

\* Repository.checkInitialized: what it throws, "ok" when nothing
checkInitialized == IF ~_initialized THEN NotInitialized.threw ELSE "ok"

\* a plausible slip: the document of the profile or nothing, the ancestors are not asked
loadProfileSyncSettings_OwnOnly(profile) ==
    IF Exists(syncYml[profile])
    THEN syncYml[profile]
    ELSE IF Exists(configYml[profile])
         THEN configYml[profile]
         ELSE SyncSettingsNotFound

\* FileRepository.loadProfileSyncSettings: .sync.yml, else config.yml, else the ancestor's
RECURSIVE loadProfileSyncSettings(_)
loadProfileSyncSettings(profile) ==
    IF Exists(syncYml[profile])
    THEN syncYml[profile]
    ELSE IF Exists(configYml[profile])
         THEN configYml[profile]
         ELSE LET settings == loadProfileSettings(profile)
              IN IF settings.extends # ""
                 THEN loadProfileSyncSettings(settings.extends)
                 ELSE SyncSettingsNotFound

\* FileRepository.saveProfileSyncSettings for the selected profile: whether it threw, and
\* .sync.yml and config.yml of the profile afterwards
saveProfileSyncSettings(configuration) ==
    LET profile == loadProfileSettings(_profile)
        inherits == profile.extends # ""
        ancestors == IF inherits THEN loadProfileSyncSettings(profile.extends) ELSE << >>
        settings == [property \in DOMAIN configuration \cap SyncProperties |-> configuration[property]]
        counted == {property \in DOMAIN settings :
                       ~inherits \/ ~(property \in DOMAIN ancestors /\ ancestors[property] = settings[property])}
        length == Cardinality(counted)
    IN IF inherits /\ IsError(ancestors)
       THEN [threw |-> TRUE, syncYml |-> syncYml[_profile], configYml |-> configYml[_profile]]
       ELSE [threw |-> FALSE,
             syncYml |-> IF length > 0 THEN settings ELSE Absent,
             configYml |-> Absent]

\* a plausible slip: one step along extends instead of the loop
getAncestorProfile_OneStep(profile) ==
    LET settings == loadProfileSettings(profile)
    IN IF settings.extends # "" THEN settings.extends ELSE profile

\* FileRepository.getAncestorProfile: the root of the chain of the profile
RECURSIVE getAncestorProfile(_)
getAncestorProfile(profile) ==
    LET settings == loadProfileSettings(profile)
    IN IF settings.extends # "" THEN getAncestorProfile(settings.extends) ELSE profile

\* Repository.canManageExtensions
canManageExtensions == commands

(***************************************************************************)
(* Settings and key bindings.  A document is its properties and whether it *)
(* carries comments.                                                       *)
(***************************************************************************)
Document(properties, comments) == [properties |-> properties, comments |-> comments]

\* '{}' and '[]'
EmptyDocument == Document(<< >>, FALSE)

\* comment of the JSONC preprocessor: the document without its source-level comments
comment(text) == Document(text.properties, FALSE)

\* utils/preprocess-jsonc: the normalizer leaves the properties as they are
preprocessJSONC(data) == data

\* utils/remove-properties: the document without the properties of the ignore list
removeProperties(text, ignoredSettings) ==
    Document([key \in DOMAIN text.properties \ Range(ignoredSettings) |-> text.properties[key]], text.comments)

\* utils/extract-properties: the properties of the ignore list, '' (here << >>) when none
extractProperties(text, ignoredSettings) ==
    [key \in DOMAIN text.properties \cap Range(ignoredSettings) |-> text.properties[key]]

\* utils/insert-properties: the extracted properties written into the document
insertProperties(data, extracted) ==
    Document([key \in DOMAIN data.properties \cup DOMAIN extracted |->
                 IF key \in DOMAIN extracted THEN extracted[key] ELSE data.properties[key]],
             data.comments)

\* value.startsWith('syncSettings')
StartsWithSyncSettings(key) == key \in {"syncSettings.resources"}

\* Repository.getIgnoredSettings
getIgnoredSettings(configuration) ==
    SelectSeq(Get(configuration, "ignoredSettings", << >>), LAMBDA value : ~StartsWithSyncSettings(value))

\* process.platform
Platform == "linux"

\* the file name FileRepository.getProfileKeybindingsPath ends in
getProfileKeybindingsPath(keybindingsPerPlatform) ==
    IF keybindingsPerPlatform
    THEN CASE Platform = "darwin" -> "keybindings-macos.json"
           [] Platform = "linux" -> "keybindings-linux.json"
           [] Platform = "win32" -> "keybindings-windows.json"
           [] OTHER -> "keybindings.json"
    ELSE "keybindings.json"

\* a file of the key bindings of a profile, Absent when it does not exist
KeybindingsFile(profile, file) ==
    IF file \in DOMAIN profileKeybindingsJson[profile] THEN profileKeybindingsJson[profile][file] ELSE Absent

\* FileRepository.getProfileKeybindings: Absent stands for undefined
getProfileKeybindings(profile, keybindingsPerPlatform) ==
    LET settings == loadProfileSyncSettings(profile)
        profilePerPlatform == Get(settings, "keybindingsPerPlatform", TRUE)
    IN IF profilePerPlatform # keybindingsPerPlatform
       THEN Absent
       ELSE KeybindingsFile(profile, getProfileKeybindingsPath(keybindingsPerPlatform))

\* FileRepository.getProfileUserSettings: Absent stands for undefined
getProfileUserSettings(profile) == profileSettingsJson[profile]

\* FileRepository.serializeKeybindings: the key-bindings files of the selected profile afterwards
serializeKeybindings(configuration) ==
    LET keybindingsPerPlatform == Get(configuration, "keybindingsPerPlatform", TRUE)
        editor == IF Exists(keybindingsJson) THEN comment(keybindingsJson) ELSE Absent
        dataPath == getProfileKeybindingsPath(keybindingsPerPlatform)
        files == profileKeybindingsJson[_profile]
    IN IF Exists(editor)
       THEN [file \in DOMAIN files \cup {dataPath} |-> IF file = dataPath THEN editor ELSE files[file]]
       ELSE [file \in DOMAIN files \ {dataPath} |-> files[file]]

\* FileRepository.serializeUserSettings: settings.json of the selected profile afterwards
serializeUserSettings(configuration) ==
    IF Exists(settingsJson)
    THEN comment(removeProperties(settingsJson, getIgnoredSettings(configuration)))
    ELSE Absent

\* FileRepository.restoreKeybindings: what it throws, and keybindings.json of the editor afterwards
restoreKeybindings(ancestorProfile) ==
    LET settings == loadProfileSyncSettings(ancestorProfile)
    IN IF IsError(settings)
       THEN [threw |-> TRUE, keybindingsJson |-> keybindingsJson]
       ELSE LET keybindingsPerPlatform == Get(settings, "keybindingsPerPlatform", TRUE)
                data == getProfileKeybindings(ancestorProfile, keybindingsPerPlatform)
            IN [threw |-> FALSE,
                keybindingsJson |-> IF Exists(data) THEN preprocessJSONC(data) ELSE EmptyDocument]

\* FileRepository.restoreUserSettings: what it throws, and settings.json of the editor afterwards
restoreUserSettings(ancestorProfile) ==
    LET settings == loadProfileSyncSettings(ancestorProfile)
        threw == Exists(settingsJson) /\ IsError(settings)
        extracted == IF Exists(settingsJson) /\ ~threw
                     THEN extractProperties(settingsJson, Get(settings, "ignoredSettings", << >>))
                     ELSE << >>
        stored == getProfileUserSettings(ancestorProfile)
        data == IF Exists(stored) THEN preprocessJSONC(stored) ELSE EmptyDocument
    IN IF threw
       THEN [threw |-> TRUE, settingsJson |-> settingsJson]
       ELSE [threw |-> FALSE,
             settingsJson |-> IF DOMAIN extracted # {} THEN insertProperties(data, extracted) ELSE data]

(***************************************************************************)
(* Extensions of a profile: serializeExtensions and restoreExtensions.     *)
(***************************************************************************)
\* FileRepository.serializeExtensions: the list it returns and extensions.yml of the
\* selected profile afterwards (the legacy document is removed)
serializeExtensions(profileSettings, configuration) ==
    LET ignoredExtensions == Get(configuration, "ignoredExtensions", << >>)
        editor == listEditorExtensions(Range(ignoredExtensions))
    IN [editor |-> editor,
        yml |-> IF profileSettings.extends # ""
                THEN ExtensionsDiff(listProfileExtensions(profileSettings.extends), editor)
                ELSE editor]

\* what a command of the host makes of an extension when it succeeds
HostCommands == {"installExtension", "disableExtension", "enableExtension", "uninstallExtension"}

HostEffect(command) ==
    CASE command = "installExtension" -> "enabled"
      [] command = "disableExtension" -> "disabled"
      [] command = "enableExtension" -> "enabled"
      [] command = "uninstallExtension" -> "absent"

\* await command(id): the call is made; the commands in failing return false and change
\* nothing
Host(state, command, id, failing) ==
    IF command \in failing
    THEN [state EXCEPT !.ok = FALSE, !.failures = TRUE, !.issued = Append(@, <<command, id>>)]
    ELSE [state EXCEPT !.ok = TRUE, !.issued = Append(@, <<command, id>>),
                       !.extensions = [e \in DOMAIN state.extensions |->
                                          IF e = id THEN HostEffect(command) ELSE state.extensions[e]]]

\* await first(id) && await second(id)
HostBoth(state, first, second, id, failing) ==
    LET one == Host(state, first, id, failing)
    IN IF one.ok THEN Host(one, second, id, failing) ELSE one

Forget(state, id) == [state EXCEPT !.installed = state.installed \ {id}]

\* one round of for(const { id } of disabled)
RestoreDisabledExt(state, id, current, failing) ==
    IF canManageExtensions
    THEN Forget(IF id \notin state.installed
                THEN HostBoth(state, "installExtension", "disableExtension", id, failing)
                ELSE IF id \in current.enabled
                     THEN Host(state, "disableExtension", id, failing)
                     ELSE state, id)
    ELSE Forget(IF id \notin state.installed
                THEN Host(state, "installExtension", id, failing)
                ELSE state, id)

\* one round of for(const { id } of enabled)
RestoreEnabledExt(state, id, current, failing) ==
    IF canManageExtensions
    THEN Forget(IF id \notin state.installed
                THEN Host(state, "installExtension", id, failing)
                ELSE IF id \in current.disabled
                     THEN Host(state, "enableExtension", id, failing)
                     ELSE state, id)
    ELSE Forget(IF id \notin state.installed
                THEN Host(state, "installExtension", id, failing)
                ELSE IF id \in current.disabled
                     THEN HostBoth(state, "uninstallExtension", "installExtension", id, failing)
                     ELSE state, id)

\* one round of for(const id in installed), and of for(const { id } of uninstall)
RestoreInstalledExt(state, id, current, failing) ==
    IF id \in state.installed THEN Host(state, "uninstallExtension", id, failing) ELSE state

RECURSIVE RestoreDisabledLoop(_, _, _, _, _)
RestoreDisabledLoop(state, ids, k, current, failing) ==
    IF k > Len(ids)
    THEN state
    ELSE RestoreDisabledLoop(RestoreDisabledExt(state, ids[k], current, failing), ids, k + 1, current, failing)

RECURSIVE RestoreEnabledLoop(_, _, _, _, _)
RestoreEnabledLoop(state, ids, k, current, failing) ==
    IF k > Len(ids)
    THEN state
    ELSE RestoreEnabledLoop(RestoreEnabledExt(state, ids[k], current, failing), ids, k + 1, current, failing)

RECURSIVE RestoreInstalledLoop(_, _, _, _, _)
RestoreInstalledLoop(state, ids, k, current, failing) ==
    IF k > Len(ids)
    THEN state
    ELSE RestoreInstalledLoop(RestoreInstalledExt(state, ids[k], current, failing), ids, k + 1, current, failing)

DisabledIdentifiers == "extensionsIdentifiers/disabled"

\* JSON.stringify(disabled)
JSONStringify(list) == String(<<"JSON">> \o Ids(list))

\* FileRepository.restoreExtensions: the failures it returns, the extensions and the
\* store of the editor afterwards, and the calls it made to the host
restoreExtensions(settings, failing) ==
    LET editor == listEditorExtensions(Range(Get(settings, "ignoredExtensions", << >>)))
        current == [disabled |-> IdSet(editor.disabled), enabled |-> IdSet(editor.enabled)]
        profile == listProfileExtensions(_profile)
        start == [extensions |-> editorExtensions,
                  installed |-> current.disabled \cup current.enabled,
                  failures |-> FALSE, ok |-> TRUE, issued |-> << >>]
        afterDisabled == RestoreDisabledLoop(start, Ids(profile.disabled), 1, current, failing)
        afterEnabled == RestoreEnabledLoop(afterDisabled, Ids(profile.enabled), 1, current, failing)
        afterInstalled == RestoreInstalledLoop(afterEnabled,
                                             Ids(editor.disabled \o editor.enabled), 1, current, failing)
        afterUninstall == IF HasUninstall(profile)
                          THEN RestoreInstalledLoop(afterInstalled, Ids(profile.uninstall), 1, current, failing)
                          ELSE afterInstalled
    IN [failures |-> afterUninstall.failures,
        extensions |-> afterUninstall.extensions,
        issued |-> afterUninstall.issued,
        stateDB |-> IF ~canManageExtensions /\ Len(profile.disabled) > 0
                    THEN [key \in DOMAIN stateDB \cup {DisabledIdentifiers} |->
                             IF key = DisabledIdentifiers THEN JSONStringify(profile.disabled) ELSE stateDB[key]]
                    ELSE stateDB]

\* FileRepository.shouldRestartApp
shouldRestartApp(selected) ==
    IF ~("uiState" \in Range(selected) \/ "extensions" \in Range(selected))
    THEN FALSE
    ELSE LET extensions == listProfileExtensions(_profile)
         IN IF Len(extensions.disabled) > 0 /\ ~canManageExtensions
            THEN TRUE
            ELSE LET editor == listEditorUIStateProperties(extensions)
                     profile == listProfileUIStateProperties(_profile)
                 IN \E key \in DOMAIN profile : StrictNotEqual(profile[key], editor, key)

(***************************************************************************)
(* Specification of the UI state of a chain of three profiles.             *)
(***************************************************************************)
UIStateInit ==
    /\ profileYml = Chain
    /\ editorExtensions \in {[id \in ExtIds |-> "absent"],
                             [id \in ExtIds |-> IF id = "a.x" THEN "enabled" ELSE "absent"]}
    /\ stateDB = << >>
    /\ uiStateYml = [p \in Profiles |-> Absent]
    /\ uiStateDiffYml = [p \in Profiles |-> Absent]
    /\ uiDiff = [modified |-> << >>, removed |-> << >>]

UIStateSetProfile(profile) ==
    /\ _profile' = setProfile(profile)._profile
    /\ _initialized' = setProfile(profile)._initialized
    /\ called' = "setProfile"
    /\ outcome' = "ok"
    /\ UNCHANGED <<profileYml, uiVars, uiOthers>>

\* the editor writes a row of the store
UIStateWrite(key, value) ==
    /\ stateDB' = [k \in DOMAIN stateDB \cup {key} |-> IF k = key THEN value ELSE stateDB[k]]
    /\ stateDB' # stateDB
    /\ called' = ""
    /\ outcome' = "ok"
    /\ UNCHANGED <<_profile, _initialized, profileYml, editorExtensions, uiStateYml, uiStateDiffYml, uiDiff, uiOthers>>

\* the editor deletes a row of the store
UIStateDelete(key) ==
    /\ key \in DOMAIN stateDB
    /\ stateDB' = [k \in DOMAIN stateDB \ {key} |-> stateDB[k]]
    /\ called' = ""
    /\ outcome' = "ok"
    /\ UNCHANGED <<_profile, _initialized, profileYml, editorExtensions, uiStateYml, uiStateDiffYml, uiDiff, uiOthers>>

\* serializeUIState called without an extension list: it lists the extensions itself
SerializeUIState ==
    /\ _initialized
    /\ LET result == serializeUIState(loadProfileSettings(_profile), listEditorExtensions({}))
       IN /\ uiStateYml' = [uiStateYml EXCEPT ![_profile] = result.yml]
          /\ uiStateDiffYml' = [uiStateDiffYml EXCEPT ![_profile] = result.diffYml]
          /\ uiDiff' = result.diff
    /\ called' = "serializeUIState"
    /\ outcome' = "ok"
    /\ UNCHANGED <<_profile, _initialized, profileYml, editorExtensions, stateDB, uiOthers>>

RestoreUIState ==
    /\ _initialized
    /\ stateDB' = restoreUIState(_profile)
    /\ called' = "restoreUIState"
    /\ outcome' = "ok"
    /\ UNCHANGED <<_profile, _initialized, profileYml, editorExtensions, uiStateYml, uiStateDiffYml, uiDiff, uiOthers>>

UIStateNext ==
    \/ \E profile \in Profiles : UIStateSetProfile(profile)
    \/ \E key \in Range(UIKeys) : \E value \in UIValues(key) : UIStateWrite(key, value)
    \/ \E key \in Range(UIKeys) : UIStateDelete(key)
    \/ SerializeUIState
    \/ RestoreUIState

InitUIState ==
    /\ UIStateInit /\ RepoOff /\ AlgOff /\ ListOff /\ RestOff
    /\ extensionsYml = [p \in Profiles |-> Absent]
    /\ extensionsOldYml = [p \in Profiles |-> Absent]
    /\ snippetsDir = [p \in Profiles |-> << >>]
    /\ snippetsDiffYml = [p \in Profiles |-> Absent]
    /\ editorSnippets = << >>
    /\ removed = << >>

SpecUIState == InitUIState /\ [][UIStateNext]_vars

(***************************************************************************)
(* Specification of serializeProfile and restoreProfile on the profiles A  *)
(* (a root) and B (which extends A), with the changes the user makes in    *)
(* the editor in between.                                                  *)
(***************************************************************************)
ProfileChoices == {"A", "B"}

\* the configurations of the editor: nothing set, an ignore list set, a selection of
\* resources (in an order of the user's) and one file of key bindings for all platforms set
Configurations ==
    {<< >>,
     "ignoredSettings" :> <<"local.path">>,
     "resources" :> <<"uiState", "keybindings", "extensions">> @@ "keybindingsPerPlatform" :> FALSE}

\* the settings documents the user writes
UserSettings == {Document("editor.fontSize" :> "12" @@ "local.path" :> "/here", TRUE),
                 Document("editor.fontSize" :> "14", FALSE)}

UserKeybindings == Document("ctrl+k" :> "command", TRUE)

\* the snippets directories the user makes
UserSnippets == {<< >>, "foo.code-snippets" :> "v1", "foo.code-snippets" :> "v2"}

\* the extensions the user installs, enables, disables and uninstalls
UserExtIds == {"a.x"}

\* config.yml of a tree an earlier version of the extension wrote: the sync policy at the
\* legacy path
LegacyPolicy == "keybindingsPerPlatform" :> FALSE

ProfileInit ==
    /\ profileYml = Chain
    /\ extensionsYml = [p \in Profiles |-> Absent]
    /\ extensionsOldYml = [p \in Profiles |-> Absent]
    /\ snippetsDir = [p \in Profiles |-> << >>]
    /\ snippetsDiffYml = [p \in Profiles |-> Absent]
    /\ removed = << >>
    /\ uiStateYml = [p \in Profiles |-> Absent]
    /\ uiStateDiffYml = [p \in Profiles |-> Absent]
    /\ uiDiff = [modified |-> << >>, removed |-> << >>]
    /\ profileSettingsJson = [p \in Profiles |-> Absent]
    /\ profileKeybindingsJson = [p \in Profiles |-> << >>]
    /\ syncYml = [p \in Profiles |-> Absent]
    \* a new tree, or an old one whose root has its policy at the legacy path
    /\ configYml \in {[p \in Profiles |-> Absent],
                      [p \in Profiles |-> IF p = "A" THEN LegacyPolicy ELSE Absent]}
    \* the editor
    /\ editorExtensions = [id \in ExtIds |-> IF id = "a.x" THEN "enabled" ELSE "absent"]
    /\ settingsJson = Document("editor.fontSize" :> "12" @@ "local.path" :> "/here", TRUE)
    /\ keybindingsJson = UserKeybindings
    /\ editorSnippets = "foo.code-snippets" :> "v1"
    /\ stateDB = "workbench.view" :> String(<<"x">>)
    /\ config \in Configurations
    /\ commands \in BOOLEAN

\* what an operation other than restoreProfile leaves of the bookkeeping
Idle == pc = "idle" /\ ops < MaxOps

ProfileSetProfile(profile) ==
    /\ pc = "idle"
    /\ _profile' = setProfile(profile)._profile
    /\ _initialized' = setProfile(profile)._initialized
    /\ called' = "setProfile"
    /\ outcome' = "ok"
    /\ UNCHANGED <<extDiskVars, snippetVars, uiVars, jsoncVars, syncVars, profileVars, profileOthers>>

\* the user installs, enables, disables or uninstalls an extension
EditorExtension(id, state) ==
    /\ Idle
    /\ editorExtensions[id] # state
    /\ editorExtensions' = [editorExtensions EXCEPT ![id] = state]
    /\ called' = "" /\ outcome' = "ok" /\ ops' = ops + 1
    /\ UNCHANGED <<_profile, _initialized, extDiskVars, snippetVars, stateDB, uiStateYml, uiStateDiffYml, uiDiff,
                   jsoncVars, syncVars, pc, syncSettings, resources, restart, reloadWindow, restored, answer,
                   triggered, serialized, captured, profileOthers>>

\* the user writes or deletes settings.json
EditorSettings(document) ==
    /\ Idle
    /\ settingsJson # document
    /\ settingsJson' = document
    /\ called' = "" /\ outcome' = "ok" /\ ops' = ops + 1
    /\ UNCHANGED <<_profile, _initialized, extDiskVars, snippetVars, uiVars, keybindingsJson, profileSettingsJson,
                   profileKeybindingsJson, syncVars, pc, syncSettings, resources, restart, reloadWindow, restored,
                   answer, triggered, serialized, captured, profileOthers>>

\* the user changes the snippets directory
EditorSnippets(dir) ==
    /\ Idle
    /\ editorSnippets # dir
    /\ editorSnippets' = dir
    /\ called' = "" /\ outcome' = "ok" /\ ops' = ops + 1
    /\ UNCHANGED <<_profile, _initialized, extDiskVars, snippetsDir, snippetsDiffYml, removed, uiVars, jsoncVars,
                   syncVars, pc, syncSettings, resources, restart, reloadWindow, restored, answer, triggered,
                   serialized, captured, profileOthers>>

\* the editor writes or deletes a workbench row of the store
EditorState(key, value) ==
    /\ Idle
    /\ stateDB' = IF Exists(value)
                  THEN [k \in DOMAIN stateDB \cup {key} |-> IF k = key THEN value ELSE stateDB[k]]
                  ELSE [k \in DOMAIN stateDB \ {key} |-> stateDB[k]]
    /\ stateDB' # stateDB
    /\ called' = "" /\ outcome' = "ok" /\ ops' = ops + 1
    /\ UNCHANGED <<_profile, _initialized, extDiskVars, snippetVars, editorExtensions, uiStateYml, uiStateDiffYml,
                   uiDiff, jsoncVars, syncVars, pc, syncSettings, resources, restart, reloadWindow, restored,
                   answer, triggered, serialized, captured, profileOthers>>

\* the user changes the sync policy in the settings of the editor
EditorConfiguration(configuration) ==
    /\ Idle
    /\ config # configuration
    /\ config' = configuration
    /\ called' = "" /\ outcome' = "ok" /\ ops' = ops + 1
    /\ UNCHANGED <<_profile, _initialized, extDiskVars, snippetVars, uiVars, jsoncVars, syncYml, configYml,
                   commands, pc, syncSettings, resources, restart, reloadWindow, restored, answer, triggered,
                   serialized, captured, profileOthers>>

\* the editor at a serializeProfile
Snapshot ==
    [profile |-> _profile, config |-> config, editorExtensions |-> editorExtensions,
     settingsJson |-> settingsJson, editorSnippets |-> editorSnippets, stateDB |-> stateDB]

\* a plausible slip: key bindings and settings are captured for every profile
NoExtends_Always(profileSettings) == TRUE

\* !profileSettings.extends of serializeProfile
NoExtends(profileSettings) == profileSettings.extends = ""

\* the steps of serializeProfile in the order of its statements; the sync policy is
\* saved whatever the resources are
SerializeSteps == <<"extensions", "snippets", "uiState", "keybindings", "settings", "syncSettings">>

\* FileRepository.serializeProfile
SerializeProfileFrom(entry) ==
    /\ Idle
    /\ LET selected == Range(Get(config, "resources", DefaultResources))
           profileSettings == loadProfileSettings(_profile)
           root == NoExtends(profileSettings)
           extensions == serializeExtensions(profileSettings, config)
           snippets == serializeSnippets(profileSettings)
           uiState == serializeUIState(profileSettings,
                          IF "extensions" \in selected THEN extensions.editor ELSE listEditorExtensions({}))
           sync == saveProfileSyncSettings(config)
           thrown == IF checkInitialized # "ok" THEN checkInitialized
                     ELSE IF "snippets" \in selected /\ snippets.threw THEN NotIterable.threw
                     ELSE IF sync.threw THEN SyncSettingsNotFound.threw
                     ELSE "ok"
           \* how far it got: nothing, up to the snippets, or everything but the sync settings
           began == checkInitialized = "ok"
           passed == began /\ ~("snippets" \in selected /\ snippets.threw)
       IN /\ extensionsYml' = IF began /\ "extensions" \in selected
                              THEN [extensionsYml EXCEPT ![_profile] = extensions.yml]
                              ELSE extensionsYml
          /\ extensionsOldYml' = IF began /\ "extensions" \in selected
                                 THEN [extensionsOldYml EXCEPT ![_profile] = Absent]
                                 ELSE extensionsOldYml
          /\ snippetsDir' = IF began /\ "snippets" \in selected
                            THEN [snippetsDir EXCEPT ![_profile] = snippets.dir]
                            ELSE snippetsDir
          /\ snippetsDiffYml' = IF began /\ "snippets" \in selected
                                THEN [snippetsDiffYml EXCEPT ![_profile] = snippets.diff]
                                ELSE snippetsDiffYml
          /\ removed' = IF began /\ "snippets" \in selected THEN snippets.removed ELSE << >>
          /\ uiStateYml' = IF passed /\ "uiState" \in selected
                           THEN [uiStateYml EXCEPT ![_profile] = uiState.yml]
                           ELSE uiStateYml
          /\ uiStateDiffYml' = IF passed /\ "uiState" \in selected
                               THEN [uiStateDiffYml EXCEPT ![_profile] = uiState.diffYml]
                               ELSE uiStateDiffYml
          /\ uiDiff' = IF passed /\ "uiState" \in selected
                       THEN uiState.diff
                       ELSE [modified |-> << >>, removed |-> << >>]
          /\ profileKeybindingsJson' = IF passed /\ root /\ "keybindings" \in selected
                                       THEN [profileKeybindingsJson EXCEPT ![_profile] = serializeKeybindings(config)]
                                       ELSE profileKeybindingsJson
          /\ profileSettingsJson' = IF passed /\ root /\ "settings" \in selected
                                    THEN [profileSettingsJson EXCEPT ![_profile] = serializeUserSettings(config)]
                                    ELSE profileSettingsJson
          /\ syncYml' = IF passed /\ ~sync.threw THEN [syncYml EXCEPT ![_profile] = sync.syncYml] ELSE syncYml
          /\ configYml' = IF passed /\ ~sync.threw THEN [configYml EXCEPT ![_profile] = sync.configYml] ELSE configYml
          /\ outcome' = thrown
          /\ serialized' = IF thrown = "ok" THEN Snapshot ELSE serialized
          /\ captured' = SelectSeq(SerializeSteps, LAMBDA step :
                             CASE step = "extensions" -> began /\ step \in selected
                               [] step = "snippets" -> passed /\ step \in selected
                               [] step = "uiState" -> passed /\ step \in selected
                               [] step = "keybindings" -> passed /\ root /\ step \in selected
                               [] step = "settings" -> passed /\ root /\ step \in selected
                               [] step = "syncSettings" -> passed /\ ~sync.threw)
    /\ called' = entry
    /\ ops' = ops + 1
    /\ UNCHANGED <<_profile, _initialized, profileYml, editorSnippets, editorExtensions, stateDB, settingsJson,
                   keybindingsJson, config, commands, pc, syncSettings, resources, restart, reloadWindow,
                   restored, answer, triggered, profileOthers>>

SerializeProfile == SerializeProfileFrom("serializeProfile")

\* restoreProfile up to the confirmation: checkInitialized, loadProfileSyncSettings,
\* getAncestorProfile, the resources and shouldRestartApp
RestoreProfileFrom(entry) ==
    /\ Idle
    /\ LET settings == loadProfileSyncSettings(_profile)
           selected == Get(settings, "resources", DefaultResources)
           thrown == IF checkInitialized # "ok" THEN checkInitialized
                     ELSE IF IsError(settings) THEN settings.threw
                     ELSE "ok"
       IN /\ outcome' = thrown
          /\ IF thrown # "ok"
             THEN /\ pc' = "idle"
                  /\ syncSettings' = << >>
                  /\ resources' = << >>
                  /\ restart' = FALSE
             ELSE /\ syncSettings' = settings
                  /\ resources' = selected
                  /\ restart' = shouldRestartApp(selected)
                  /\ pc' = IF restart' THEN "confirm" ELSE "restore"
    /\ reloadWindow' = FALSE
    /\ restored' = << >>
    /\ answer' = ""
    /\ triggered' = ""
    /\ called' = entry
    /\ ops' = ops + 1
    /\ UNCHANGED <<_profile, _initialized, extDiskVars, snippetVars, uiVars, jsoncVars, syncVars, serialized,
                   captured, profileOthers>>

RestoreProfileBegin == RestoreProfileFrom("restoreProfile")

\* a plausible slip: the restore goes on whatever the user answers
RestoreProfileConfirm_AnswerIgnored(result) ==
    /\ pc = "confirm"
    /\ answer' = IF result THEN "Yes" ELSE "dismissed"
    /\ pc' = "restore"
    /\ UNCHANGED <<repoVars, extDiskVars, snippetVars, uiVars, jsoncVars, syncVars, syncSettings, resources,
                   restart, reloadWindow, restored, triggered, serialized, captured, ops, profileOthers>>

\* the confirmation of restoreProfile: showInformationMessage gives 'Yes' or undefined
RestoreProfileConfirm(result) ==
    /\ pc = "confirm"
    /\ answer' = IF result THEN "Yes" ELSE "dismissed"
    /\ pc' = IF result THEN "restore" ELSE "idle"
    /\ UNCHANGED <<repoVars, extDiskVars, snippetVars, uiVars, jsoncVars, syncVars, syncSettings, resources,
                   restart, reloadWindow, restored, triggered, serialized, captured, ops, profileOthers>>

\* one round of for(const resource of resources) of restoreProfile; failing are the
\* commands of the host that fail in this round
RestoreProfileResource(failing) ==
    /\ pc = "restore"
    /\ Len(restored) < Len(resources)
    /\ LET resource == resources[Len(restored) + 1]
           ancestorProfile == getAncestorProfile(_profile)
           extensions == restoreExtensions(syncSettings, failing)
           keybindings == restoreKeybindings(ancestorProfile)
           settings == restoreUserSettings(ancestorProfile)
           threw == \/ resource = "keybindings" /\ keybindings.threw
                    \/ resource = "settings" /\ settings.threw
       IN /\ resource # "extensions" => failing = {}
          /\ editorExtensions' = IF resource = "extensions" THEN extensions.extensions ELSE editorExtensions
          /\ reloadWindow' = IF resource = "extensions" THEN extensions.failures ELSE reloadWindow
          /\ stateDB' = CASE resource = "extensions" -> extensions.stateDB
                          [] resource = "uiState" -> restoreUIState(_profile)
                          [] OTHER -> stateDB
          /\ keybindingsJson' = IF resource = "keybindings" THEN keybindings.keybindingsJson ELSE keybindingsJson
          /\ settingsJson' = IF resource = "settings" THEN settings.settingsJson ELSE settingsJson
          /\ editorSnippets' = IF resource = "snippets" THEN restoreSnippets(_profile) ELSE editorSnippets
          /\ restored' = IF threw THEN restored ELSE Append(restored, resource)
          /\ pc' = IF threw THEN "idle" ELSE "restore"
          /\ outcome' = IF threw THEN SyncSettingsNotFound.threw ELSE "ok"
    /\ UNCHANGED <<_profile, _initialized, called, extDiskVars, snippetsDir, snippetsDiffYml, removed, uiStateYml,
                   uiStateDiffYml, uiDiff, profileSettingsJson, profileKeybindingsJson, syncVars, syncSettings,
                   resources, restart, answer, triggered, serialized, captured, ops, profileOthers>>

\* the end of restoreProfile: restartApp() or the command workbench.action.reloadWindow
RestoreProfileEnd ==
    /\ pc = "restore"
    /\ Len(restored) = Len(resources)
    /\ triggered' = IF restart THEN "restartApp" ELSE IF reloadWindow THEN "reloadWindow" ELSE ""
    /\ pc' = "idle"
    /\ UNCHANGED <<repoVars, extDiskVars, snippetVars, uiVars, jsoncVars, syncVars, syncSettings, resources,
                   restart, reloadWindow, restored, answer, serialized, captured, ops, profileOthers>>

ProfileNext ==
    \/ \E profile \in ProfileChoices : ProfileSetProfile(profile)
    \/ \E id \in UserExtIds, state \in {"absent", "enabled", "disabled"} : EditorExtension(id, state)
    \/ \E document \in UserSettings \cup {Absent} : EditorSettings(document)
    \/ \E dir \in UserSnippets : EditorSnippets(dir)
    \/ \E key \in WorkbenchKeys : \E value \in UIValues(key) \cup {Absent} : EditorState(key, value)
    \/ \E configuration \in Configurations : EditorConfiguration(configuration)
    \/ SerializeProfile
    \/ RestoreProfileBegin
    \/ \E result \in BOOLEAN : RestoreProfileConfirm(result)
    \/ \E failing \in SUBSET HostCommands : RestoreProfileResource(failing)
    \/ RestoreProfileEnd

InitProfile == ProfileInit /\ RepoOff /\ AlgOff /\ ListOff /\ ProfileOff /\ HostOff /\ TreeOff

SpecProfile == InitProfile /\ [][ProfileNext]_vars

\* C9: for an inheriting profile serializeUIState computes removed as the keys of the
\* ancestor's effective properties absent from the live snapshot, and modified as the live
\* keys whose value is not deep-equal to the ancestor's; no key is in both.
C9_UIStateDiffExact ==
    (called = "serializeUIState" /\ profileYml[_profile] # "") =>
        LET ancestor == listProfileUIStateProperties(profileYml[_profile])
            editor == listEditorUIStateProperties(listEditorExtensions({}))
        IN /\ Range(uiDiff.removed) = DOMAIN ancestor \ DOMAIN editor
           /\ DOMAIN uiDiff.modified =
                 {key \in DOMAIN editor : key \notin DOMAIN ancestor \/ editor[key] # ancestor[key]}
           /\ \A key \in DOMAIN uiDiff.modified : uiDiff.modified[key] = editor[key]
           /\ DOMAIN uiDiff.modified \cap Range(uiDiff.removed) = {}

(***************************************************************************)
(* Properties of serializeProfile and restoreProfile.                      *)
(***************************************************************************)
\* the properties of a settings document, none when there is no document
Properties(document) == IF Exists(document) THEN document.properties ELSE << >>

\* the value of a key, Absent when the key is not there
ValueOf(properties, key) == IF key \in DOMAIN properties THEN properties[key] ELSE Absent

\* a value holding a path that is redacted: the extension-data path or the home directory
HoldsRedactedPath(value) ==
    /\ Exists(value)
    /\ IsStringValue(value)
    /\ includes(value, ExtDataPath) \/ includes(value, HomeDirectory)

\* the editor is what it was at the serializeProfile, but for the ignored and the redacted
SameAsSerialized ==
    LET was == serialized
        selected == Range(Get(was.config, "resources", DefaultResources))
        ignoredExtensions == Range(Get(was.config, "ignoredExtensions", << >>))
        ignoredSettings == Range(Get(was.config, "ignoredSettings", << >>))
    IN /\ "extensions" \in selected =>
             \A id \in ExtIds \ ignoredExtensions : editorExtensions[id] = was.editorExtensions[id]
       /\ "settings" \in selected =>
             \A key \in (DOMAIN Properties(settingsJson) \cup DOMAIN Properties(was.settingsJson)) \ ignoredSettings :
                 ValueOf(Properties(settingsJson), key) = ValueOf(Properties(was.settingsJson), key)
       /\ "snippets" \in selected => editorSnippets = was.editorSnippets
       /\ "uiState" \in selected =>
             \A key \in WorkbenchKeys :
                 \/ HoldsRedactedPath(ValueOf(was.stateDB, key))
                 \/ ValueOf(stateDB, key) = ValueOf(was.stateDB, key)

\* C5: for a non-inheriting profile, serializeProfile followed by restoreProfile of the
\* same profile completes without a fatal error, whatever the sync configuration, and
\* leaves the editor as it was when serialized, but for the ignored keys and the values
\* holding a redacted path.
C5_RoundTrip ==
    (/\ called = "restoreProfile" /\ pc = "idle" /\ answer # "dismissed"
     /\ Exists(serialized) /\ serialized.profile = _profile
     /\ profileYml[_profile] = "")
        => outcome = "ok" /\ SameAsSerialized

\* C8: after a serializeProfile of an inheriting profile, snippets.diff.yml and
\* ui-state.diff.yml each exist only if the diff just computed for the resource is not
\* empty.
C8_NoEmptyDiffDocument ==
    (called = "serializeProfile" /\ outcome = "ok" /\ profileYml[_profile] # "") =>
        LET selected == Range(Get(config, "resources", DefaultResources))
        IN /\ ("snippets" \in selected /\ Exists(snippetsDiffYml[_profile])) => Len(removed) > 0
           /\ ("uiState" \in selected /\ Exists(uiStateDiffYml[_profile])) =>
                 Len(uiDiff.removed) > 0 \/ ~isEmpty(uiDiff.modified)

\* what restoreProfile can mutate: the editor and the profile tree
Editor == <<editorExtensions, settingsJson, keybindingsJson, editorSnippets, stateDB>>

ProfileTree ==
    <<extDiskVars, snippetsDir, snippetsDiffYml, uiStateYml, uiStateDiffYml, profileSettingsJson,
      profileKeybindingsJson, syncYml, configYml>>

\* C10: restoreProfile mutates nothing up to and including the confirmation; when the
\* user declines, it returns with no resource restored and nothing triggered; a restart or
\* a reload is triggered only once every selected resource is restored, and a restart only
\* when the user accepted.
C10_ConfirmationGate ==
    /\ [][(called' = "restoreProfile" /\ pc \in {"idle", "confirm"}) =>
              UNCHANGED <<Editor, ProfileTree>> /\ triggered' = ""]_vars
    /\ [](answer = "dismissed" => pc = "idle" /\ restored = << >> /\ triggered = "")
    /\ [](triggered # "" => restored = resources /\ pc = "idle")
    /\ [](triggered = "restartApp" => restart /\ answer = "Yes")
    /\ [](pc = "restore" /\ restart => answer = "Yes")

\* the user declined a restart that was needed, after the editor had moved away from
\* the profile
C10_Witness ==
    /\ called = "restoreProfile" /\ pc = "idle"
    /\ restart /\ answer = "dismissed"
    /\ Exists(serialized) /\ Len(resources) > 0

(***************************************************************************)
(* Specification of shouldRestartApp on stored profiles A <- B: the        *)
(* extensions and UI-state documents are ones earlier serializations left, *)
(* the editor writes its store, and the check is asked for a selection of  *)
(* resources.                                                              *)
(***************************************************************************)
\* the resources lists a sync policy holds
ResourceSelections ==
    {<<"extensions">>, <<"uiState">>, <<"keybindings", "settings", "snippets">>, DefaultResources}

\* extensions.yml of the root profile
RestartExtensions ==
    {Absent,
     [disabled |-> << >>, enabled |-> <<ExtensionId("a.x")>>],
     [disabled |-> <<ExtensionId("a.x")>>, enabled |-> << >>]}

\* ui-state.yml of the root profile, as listEditorUIStateProperties gave it
RestartUIState ==
    {Absent,
     "workbench.view" :> String(<<"x">>),
     "workbench.view" :> String(Placeholder \o <<"/x">>),
     "workbench.view" :> Structured("view")}

\* ui-state.diff.yml of the inheriting profile
RestartUIStateDiff ==
    {Absent, [modified |-> << >>, removed |-> <<"workbench.view">>]}

RestartInit ==
    /\ profileYml = Chain
    /\ extensionsYml \in {[p \in Profiles |-> IF p = "A" THEN document ELSE Absent] :
                              document \in RestartExtensions}
    /\ extensionsOldYml = [p \in Profiles |-> Absent]
    /\ uiStateYml \in {[p \in Profiles |-> IF p = "A" THEN document ELSE Absent] : document \in RestartUIState}
    /\ uiStateDiffYml \in {[p \in Profiles |-> IF p = "B" THEN document ELSE Absent] :
                               document \in RestartUIStateDiff}
    /\ uiDiff = [modified |-> << >>, removed |-> << >>]
    /\ editorExtensions = [id \in ExtIds |-> IF id = "a.x" THEN "enabled" ELSE "absent"]
    /\ stateDB = << >>
    /\ commands \in BOOLEAN

\* shouldRestartApp(resources, userDataPath) for the selected profile, as restoreProfile
\* calls it once checkInitialized has passed
ShouldRestartApp(selected) ==
    /\ _initialized
    /\ resources' = selected
    /\ restart' = shouldRestartApp(selected)
    /\ called' = "shouldRestartApp"
    /\ outcome' = "ok"
    /\ UNCHANGED <<_profile, _initialized, algVars, extDiskVars, listVars, snippetVars, uiVars, jsoncVars,
                   syncVars, pc, syncSettings, reloadWindow, restored, answer, triggered, serialized, captured,
                   ops, hostVars, treeVars>>

RestartNext ==
    \/ \E profile \in {"A", "B"} : UIStateSetProfile(profile)
    \/ \E key \in Range(UIKeys) : \E value \in UIValues(key) : UIStateWrite(key, value)
    \/ \E key \in Range(UIKeys) : UIStateDelete(key)
    \/ \E selected \in ResourceSelections : ShouldRestartApp(selected)

InitRestart ==
    /\ RestartInit /\ RepoOff /\ AlgOff /\ ListOff /\ SnippetsOff /\ JsoncOff /\ ProfileOff /\ HostOff /\ TreeOff
    /\ config = << >>
    /\ syncYml = [p \in Profiles |-> Absent]
    /\ configYml = [p \in Profiles |-> Absent]

SpecRestart == InitRestart /\ [][RestartNext]_vars

\* a target-disabled extension of the effective list that the host cannot disable
CannotDisable == Len(listProfileExtensions(_profile).disabled) > 0 /\ ~canManageExtensions

\* a key of the effective UI state whose value is not the live one
UIStateDiffers ==
    LET profile == listProfileUIStateProperties(_profile)
        editor == listEditorUIStateProperties(listProfileExtensions(_profile))
    IN \E key \in DOMAIN profile : key \notin DOMAIN editor \/ profile[key] # editor[key]

\* C11: shouldRestartApp is true exactly when a selected resource requires it: extensions
\* are selected and a target-disabled extension cannot be disabled by the host, or UI
\* state is selected and a key of the effective UI state differs from the live value.
C11_RestartNecessity ==
    called = "shouldRestartApp" =>
        restart = \/ "extensions" \in Range(resources) /\ CannotDisable
                  \/ "uiState" \in Range(resources) /\ UIStateDiffers

\* the place of a resource in the declared order: extensions, key bindings, settings,
\* snippets, UI state
Place(resource) == CHOOSE i \in 1..Len(DefaultResources) : DefaultResources[i] = resource

\* C12: whatever the stored resources list is, restoreProfile restores the selected
\* resources in the declared order extensions, key bindings, settings, snippets, UI state.
C12_FixedOrder ==
    \A i, j \in 1..Len(restored) : i < j => Place(restored[i]) < Place(restored[j])

\* the place of a step of serializeProfile in the order of the claim: extensions, then
\* snippets, then UI state, then key bindings and settings, and the sync policy last
StepPlace(step) ==
    CASE step = "extensions" -> 1
      [] step = "snippets" -> 2
      [] step = "uiState" -> 3
      [] step \in {"keybindings", "settings"} -> 4
      [] step = "syncSettings" -> 5

\* the steps a complete serializeProfile of the selected profile has to take
StepsToTake ==
    LET selected == Range(Get(config, "resources", DefaultResources))
        baseline == IF profileYml[_profile] = "" THEN {"keybindings", "settings"} ELSE {}
    IN (selected \cap ({"extensions", "snippets", "uiState"} \cup baseline)) \cup {"syncSettings"}

\* C13: serializeProfile captures extensions, then snippets, then UI state (from the
\* extension list just computed), then key bindings and settings, and saves the sync
\* policy last; key bindings and settings are captured only for a profile without
\* extends, so serializing an inheriting profile leaves every settings and key-bindings
\* baseline on disk unchanged.
C13_SerializeOrder ==
    /\ [](called = "serializeProfile" /\ _initialized =>
             /\ \A i, j \in 1..Len(captured) :
                    i < j => /\ StepPlace(captured[i]) <= StepPlace(captured[j])
                             /\ captured[i] # captured[j]
             /\ Range(captured) \subseteq StepsToTake
             /\ outcome = "ok" => Range(captured) = StepsToTake
             /\ {"extensions", "uiState"} \subseteq Range(captured) /\ profileYml[_profile] = "" =>
                    uiStateYml[_profile] = listEditorUIStateProperties(listProfileExtensions(_profile)))
    /\ [][called' = "serializeProfile" /\ _initialized /\ profileYml[_profile] # "" =>
              UNCHANGED <<profileSettingsJson, profileKeybindingsJson>>]_vars

\* a complete serializeProfile of the inheriting profile B, with UI state captured, while
\* the root A has a settings baseline on disk
C13_Witness ==
    /\ called = "serializeProfile" /\ outcome = "ok" /\ _profile = "B"
    /\ "uiState" \in Range(captured) /\ "syncSettings" \in Range(captured)
    /\ Exists(profileSettingsJson["A"])

(***************************************************************************)
(* Specification of restoreExtensions on stored profiles A <- B: the       *)
(* extension documents and the sync policy are ones earlier                *)
(* serializations left, the editor has any of its extensions installed,    *)
(* and any command of the host may fail.                                   *)
(***************************************************************************)
\* the records of a sequence of ids
Records(ids) == [i \in 1..Len(ids) |-> ExtensionId(ids[i])]

\* extensions.yml of the root profile: a list the editor gave
HostBaselines ==
    {list \in {[disabled |-> Records(d), enabled |-> Records(e)] :
                  d \in {<< >>, <<"a.x">>, <<"b.y">>}, e \in {<< >>, <<"a.x">>, <<"b.y">>, <<"a.x", "b.y">>}} :
        WellFormed(list)}

\* extensions.yml of the inheriting profile: a diff serializeExtensions wrote
HostDiffs ==
    {Absent,
     [disabled |-> << >>, enabled |-> Records(<<"b.y">>)],
     [disabled |-> Records(<<"b.y">>), enabled |-> << >>],
     [disabled |-> << >>, enabled |-> << >>, uninstall |-> Records(<<"a.x">>)]}

\* the sync policy restoreProfile hands to restoreExtensions: the root's, which the
\* inheriting profile shares
HostPolicies == {<< >>, "ignoredExtensions" :> <<"b.y">>}

HostInit ==
    /\ profileYml = Chain
    /\ extensionsYml \in {[p \in Profiles |-> CASE p = "A" -> baseline [] p = "B" -> diff [] OTHER -> Absent] :
                              baseline \in HostBaselines, diff \in HostDiffs}
    /\ extensionsOldYml = [p \in Profiles |-> Absent]
    /\ editorExtensions \in [ExtIds -> {"absent", "enabled", "disabled"}]
    \* the root's list was written with the root's policy: it holds no ignored extension;
    \* the diff of the inheriting profile may be older than the policy
    /\ syncSettings \in {policy \in HostPolicies :
                             \A id \in Range(Get(policy, "ignoredExtensions", << >>)) :
                                 id \notin IdSet(extensionsYml["A"].disabled) \cup IdSet(extensionsYml["A"].enabled)}
    /\ commands \in BOOLEAN
    /\ issued = << >>
    /\ failed = {}

\* restoreExtensions(syncSettings) for the selected profile; failing are the commands of
\* the host that return false
RestoreExtensions(failing) ==
    /\ _initialized
    /\ LET result == restoreExtensions(syncSettings, failing)
       IN /\ editorExtensions' = result.extensions
          /\ stateDB' = result.stateDB
          /\ reloadWindow' = result.failures
          /\ issued' = result.issued
    /\ failed' = failing
    /\ called' = "restoreExtensions"
    /\ outcome' = "ok"
    /\ UNCHANGED <<_profile, _initialized, algVars, extDiskVars, listVars, snippetVars, uiStateYml,
                   uiStateDiffYml, uiDiff, jsoncVars, syncVars, pc, syncSettings, resources, restart,
                   restored, answer, triggered, serialized, captured, ops, treeVars>>

\* no command of the host fails, or one of them does
HostFailures == {{}} \cup {{command} : command \in HostCommands}

HostNext ==
    \/ \E profile \in {"A", "B"} : UIStateSetProfile(profile)
    \/ \E failing \in HostFailures : RestoreExtensions(failing)

InitHost ==
    /\ HostInit /\ RepoOff /\ AlgOff /\ ListOff /\ SnippetsOff /\ JsoncOff /\ TreeOff
    /\ stateDB = << >>
    /\ uiStateYml = [p \in Profiles |-> Absent]
    /\ uiStateDiffYml = [p \in Profiles |-> Absent]
    /\ uiDiff = [modified |-> << >>, removed |-> << >>]
    /\ config = << >>
    /\ syncYml = [p \in Profiles |-> Absent]
    /\ configYml = [p \in Profiles |-> Absent]
    /\ pc = "idle" /\ resources = << >> /\ restart = FALSE /\ reloadWindow = FALSE /\ restored = << >>
    /\ answer = "" /\ triggered = "" /\ serialized = Absent /\ captured = << >> /\ ops = 0

SpecHost == InitHost /\ [][HostNext]_vars

\* the effective extension list of the selected profile, by id
TargetDisabled == IdSet(listProfileExtensions(_profile).disabled)
TargetEnabled == IdSet(listProfileExtensions(_profile).enabled)

\* the extensions the policy leaves alone, and those reconciliation sees in the editor
IgnoredExtensions == Range(Get(syncSettings, "ignoredExtensions", << >>))
SeenInstalled == {id \in ExtIds : editorExtensions[id] # "absent"} \ IgnoredExtensions
SeenIn(state) == {id \in SeenInstalled : editorExtensions[id] = state}

Calls(command, ids) == {<<command, id>> : id \in ids}

\* the calls reconciliation asks for, with and without the host's enable and disable
CallsAskedFor ==
    IF canManageExtensions
    THEN Calls("installExtension", (TargetDisabled \cup TargetEnabled) \ SeenInstalled)
         \cup Calls("disableExtension", (TargetDisabled \ SeenInstalled) \cup (TargetDisabled \cap SeenIn("enabled")))
         \cup Calls("enableExtension", TargetEnabled \cap SeenIn("disabled"))
         \cup Calls("uninstallExtension", SeenInstalled \ (TargetDisabled \cup TargetEnabled))
    ELSE Calls("installExtension", (TargetDisabled \cup TargetEnabled) \ SeenInstalled)
         \cup Calls("uninstallExtension", TargetEnabled \cap SeenIn("disabled"))
         \cup Calls("installExtension", TargetEnabled \cap SeenIn("disabled"))
         \cup Calls("uninstallExtension", SeenInstalled \ (TargetDisabled \cup TargetEnabled))

\* C14: a failed call never aborts restoreExtensions: every call reconciliation asks for
\* is attempted, the second one of a pair included, and the flag it returns is true
\* exactly when a call failed.
C14_EveryCallAttempted ==
    [][called' = "restoreExtensions" =>
           /\ Range(issued') = CallsAskedFor
           /\ reloadWindow' = (\E i \in 1..Len(issued') : issued'[i][1] \in failed')]_vars

\* C15: restoreExtensions uninstalls every live extension that is not ignored and is in
\* neither partition of the effective list, installs every extension of the list that is
\* not installed, leaves each extension of the list in its target state when the host has
\* enable and disable and every call succeeds, and makes no call for an extension that is
\* already in its target state.
C15_Reconciled ==
    [][called' = "restoreExtensions" =>
           /\ \A id \in SeenInstalled \ (TargetDisabled \cup TargetEnabled) :
                  \E i \in 1..Len(issued') : issued'[i] = <<"uninstallExtension", id>>
           /\ \A id \in TargetDisabled \cup TargetEnabled :
                  editorExtensions[id] = "absent" =>
                      \E i \in 1..Len(issued') : issued'[i] = <<"installExtension", id>>
           /\ canManageExtensions /\ failed' = {} =>
                  /\ \A id \in TargetEnabled : editorExtensions'[id] = "enabled"
                  /\ \A id \in TargetDisabled : editorExtensions'[id] = "disabled"
           /\ \A id \in ExtIds :
                  \/ id \in TargetEnabled /\ editorExtensions[id] = "enabled"
                  \/ id \in TargetDisabled /\ editorExtensions[id] = "disabled"
                  => \A i \in 1..Len(issued') : issued'[i][2] # id]_vars

\* the ignore list of a policy: ignoredSettings without the keys of the syncSettings
\* namespace
IgnoredKeys(policy) ==
    {key \in Range(Get(policy, "ignoredSettings", << >>)) : ~StartsWithSyncSettings(key)}

\* C16: ignored settings keys come from the live machine, never from the profile:
\* serializeUserSettings stores no property whose key is on the ignore list, and after
\* restoreUserSettings every key on the ignore list of the policy resolved for the
\* restored profile that the live document held before keeps its live value.
C16_IgnoredKeysStayLive ==
    /\ [](called = "serializeProfile" /\ "settings" \in Range(captured) /\ Exists(profileSettingsJson[_profile]) =>
             DOMAIN profileSettingsJson[_profile].properties \cap IgnoredKeys(config) = {})
    /\ [][/\ pc = "restore"
          /\ restored' = Append(restored, "settings")
          /\ Exists(settingsJson)
          => \A key \in IgnoredKeys(syncSettings) \cap DOMAIN settingsJson.properties :
                 /\ Exists(settingsJson')
                 /\ key \in DOMAIN settingsJson'.properties
                 /\ settingsJson'.properties[key] = settingsJson.properties[key]]_vars

\* the profile and its ancestors along extends, nearest first
RECURSIVE Lineage(_)
Lineage(profile) ==
    <<profile>> \o (IF profileYml[profile] = "" THEN << >> ELSE Lineage(profileYml[profile]))

\* the sync-policy documents the profile has of its own, current and legacy path
OwnPolicies(profile) == {document \in {syncYml[profile], configYml[profile]} : Exists(document)}

\* the places in the lineage of the selected profile that have a sync-policy document
PolicyHolders == {i \in 1..Len(Lineage(_profile)) : OwnPolicies(Lineage(_profile)[i]) # {}}

\* the editor's side of every resource
editorVars == <<editorExtensions, stateDB, keybindingsJson, settingsJson, editorSnippets>>

InheritedPolicy == loadProfileSyncSettings(profileYml[_profile])

\* the policy fields set in the configuration whose value is not the inherited one
DifferingFields ==
    {property \in DOMAIN config \cap SyncProperties :
        ~(property \in DOMAIN InheritedPolicy /\ InheritedPolicy[property] = config[property])}

\* C18: after saveProfileSyncSettings of an inheriting profile the override document
\* holds exactly the policy fields whose live value differs from the inherited one (a
\* field set to the inherited value is not in it even when another field differs), and
\* when no field differs there is no override document at the current or the legacy path.
C18_MinimalOverride ==
    called = "serializeProfile" /\ "syncSettings" \in Range(captured) /\ profileYml[_profile] # "" =>
        /\ ~Exists(configYml[_profile])
        /\ IF DifferingFields = {}
           THEN ~Exists(syncYml[_profile])
           ELSE syncYml[_profile] = [property \in DifferingFields |-> config[property]]

\* C19: the policy restoreProfile resolves for an inheriting profile with a sync-policy
\* document of its own gives every policy field the document leaves unset the value
\* resolved for its ancestor.
C19_UnsetFieldsInherited ==
    /\ called = "restoreProfile"
    /\ outcome = "ok"
    /\ profileYml[_profile] # ""
    /\ OwnPolicies(_profile) # {}
    => \A own \in OwnPolicies(_profile) :
           \A property \in (SyncProperties \cap DOMAIN InheritedPolicy) \ DOMAIN own :
               /\ property \in DOMAIN syncSettings
               /\ syncSettings[property] = InheritedPolicy[property]

(***************************************************************************)
(* The profile tree.  The specification starts from an empty repository    *)
(* and makes profiles with setProfile, extendProfileTo and                  *)
(* duplicateProfileTo, with serializeProfile in between.                    *)
(***************************************************************************)
\* an empty repository: no profile directory, no document
TreeInit ==
    /\ profileDirs = {}
    /\ profileYml = [p \in Profiles |-> ""]
    /\ extensionsYml = [p \in Profiles |-> Absent]
    /\ extensionsOldYml = [p \in Profiles |-> Absent]
    /\ snippetsDir = [p \in Profiles |-> << >>]
    /\ snippetsDiffYml = [p \in Profiles |-> Absent]
    /\ removed = << >>
    /\ uiStateYml = [p \in Profiles |-> Absent]
    /\ uiStateDiffYml = [p \in Profiles |-> Absent]
    /\ uiDiff = [modified |-> << >>, removed |-> << >>]
    /\ profileSettingsJson = [p \in Profiles |-> Absent]
    /\ profileKeybindingsJson = [p \in Profiles |-> << >>]
    /\ syncYml = [p \in Profiles |-> Absent]
    /\ configYml = [p \in Profiles |-> Absent]
    \* the editor
    /\ editorExtensions = [id \in ExtIds |-> IF id = "a.x" THEN "enabled" ELSE "absent"]
    /\ settingsJson = Document("editor.fontSize" :> "12" @@ "local.path" :> "/here", TRUE)
    /\ keybindingsJson = UserKeybindings
    /\ editorSnippets = "foo.code-snippets" :> "v1"
    /\ stateDB = "workbench.view" :> String(<<"x">>)
    /\ config \in Configurations
    /\ commands = TRUE

\* the profiles the profile inherits from, found by walking extends at most n more times
RECURSIVE Up(_, _)
Up(found, n) ==
    IF n = 0 THEN found ELSE Up(found \cup ({profileYml[p] : p \in found} \ {""}), n - 1)

AncestorsOf(profile) == Up({profileYml[profile]} \ {""}, Cardinality(Profiles))

\* walking extends from the profile never ends
Endless(profile) == \E p \in {profile} \cup AncestorsOf(profile) : p \in AncestorsOf(p)

\* Repository.setProfile with FileRepository.initialize: the directory of the profile is made
TreeSetProfile(profile) ==
    /\ pc = "idle"
    /\ _profile' = setProfile(profile)._profile
    /\ _initialized' = setProfile(profile)._initialized
    /\ profileDirs' = profileDirs \cup {profile}
    /\ called' = "setProfile"
    /\ outcome' = "ok"
    /\ UNCHANGED <<extDiskVars, snippetVars, uiVars, jsoncVars, syncVars, profileVars, algVars, listVars, hostVars>>

\* FileRepository.extendProfileTo: profile.yml of the new profile is written, with its
\* directory
ExtendProfileTo(originalProfile, newProfile) ==
    /\ Idle
    /\ IF checkInitialized # "ok"
       THEN /\ outcome' = checkInitialized
            /\ UNCHANGED <<profileYml, profileDirs>>
       ELSE /\ outcome' = "ok"
            /\ profileYml' = [profileYml EXCEPT ![newProfile] = originalProfile]
            /\ profileDirs' = profileDirs \cup {newProfile}
    /\ called' = "extendProfileTo"
    /\ ops' = ops + 1
    /\ UNCHANGED <<_profile, _initialized, extensionsYml, extensionsOldYml, snippetVars, uiVars, jsoncVars,
                   syncVars, pc, syncSettings, resources, restart, reloadWindow, restored, answer, triggered,
                   serialized, captured, algVars, listVars, hostVars>>

\* fse.copy of one file: the file of the source replaces that of the destination, a file
\* the source does not have is left
CopyFile(files, originalProfile, newProfile) ==
    IF Exists(files[originalProfile]) THEN [files EXCEPT ![newProfile] = files[originalProfile]] ELSE files

\* fse.copy of a directory of files
CopyFiles(dirs, originalProfile, newProfile) ==
    [dirs EXCEPT ![newProfile] = dirs[originalProfile] @@ dirs[newProfile]]

\* FileRepository.duplicateProfileTo: fse.copy of the directory of the original over that
\* of the new profile; it throws when the source is missing or is the destination
DuplicateProfileTo(originalProfile, newProfile) ==
    /\ Idle
    /\ LET thrown == IF checkInitialized # "ok" THEN checkInitialized
                     ELSE IF originalProfile \notin profileDirs THEN "ENOENT: no such file or directory"
                     ELSE IF originalProfile = newProfile THEN "Source and destination must not be the same."
                     ELSE "ok"
       IN /\ outcome' = thrown
          /\ IF thrown # "ok"
             THEN UNCHANGED <<profileDirs, extDiskVars, snippetsDir, snippetsDiffYml, uiStateYml, uiStateDiffYml,
                              profileSettingsJson, profileKeybindingsJson, syncYml, configYml>>
             ELSE /\ profileDirs' = profileDirs \cup {newProfile}
                  /\ profileYml' = IF profileYml[originalProfile] # ""
                                   THEN [profileYml EXCEPT ![newProfile] = profileYml[originalProfile]]
                                   ELSE profileYml
                  /\ extensionsYml' = CopyFile(extensionsYml, originalProfile, newProfile)
                  /\ extensionsOldYml' = CopyFile(extensionsOldYml, originalProfile, newProfile)
                  /\ snippetsDir' = CopyFiles(snippetsDir, originalProfile, newProfile)
                  /\ snippetsDiffYml' = CopyFile(snippetsDiffYml, originalProfile, newProfile)
                  /\ uiStateYml' = CopyFile(uiStateYml, originalProfile, newProfile)
                  /\ uiStateDiffYml' = CopyFile(uiStateDiffYml, originalProfile, newProfile)
                  /\ profileSettingsJson' = CopyFile(profileSettingsJson, originalProfile, newProfile)
                  /\ profileKeybindingsJson' = CopyFiles(profileKeybindingsJson, originalProfile, newProfile)
                  /\ syncYml' = CopyFile(syncYml, originalProfile, newProfile)
                  /\ configYml' = CopyFile(configYml, originalProfile, newProfile)
    /\ called' = "duplicateProfileTo"
    /\ ops' = ops + 1
    /\ UNCHANGED <<_profile, _initialized, editorSnippets, removed, editorExtensions, stateDB, uiDiff, settingsJson,
                   keybindingsJson, config, commands, pc, syncSettings, resources, restart, reloadWindow,
                   restored, answer, triggered, serialized, captured, algVars, listVars, hostVars>>

\* FileRepository.serializeProfile in the tree: where walking extends from the selected
\* profile never ends, the call does not return
TreeSerializeProfile ==
    /\ _initialized => ~Endless(_profile)
    /\ SerializeProfile

TreeNext ==
    \/ \E profile \in Profiles : TreeSetProfile(profile)
    \/ \E originalProfile \in Profiles, newProfile \in Profiles : ExtendProfileTo(originalProfile, newProfile)
    \/ \E originalProfile \in Profiles, newProfile \in Profiles : DuplicateProfileTo(originalProfile, newProfile)
    \/ TreeSerializeProfile

InitTree == TreeInit /\ RepoOff /\ AlgOff /\ ListOff /\ ProfileOff /\ HostOff

SpecTree == InitTree /\ [][TreeNext]_vars

\* C20: in every state reached from an empty repository by setProfile, extendProfileTo,
\* duplicateProfileTo and serializeProfile, every extends of a stored profile names a stored
\* profile and no stored profile is among its own ancestors.
C20_ExtendsWellFormed ==
    \A p \in profileDirs :
        profileYml[p] # "" => profileYml[p] \in profileDirs /\ p \notin AncestorsOf(p)

(***************************************************************************)
(* The life of the repository object: setProfile with an initialize that   *)
(* may fail, every public operation and the editor writing its store,     *)
(* from an empty repository.                                               *)
(***************************************************************************)
EnsureDirFailed == "EACCES: permission denied, mkdir"

\* FileRepository.initialize: _initialized afterwards; ensured is whether fse.ensureDir
\* made (or found) the directory, it throws when not
initialize(ensured) == IF ensured THEN TRUE ELSE _initialized

\* Repository.setProfile: the profile is selected, then initialize runs
SetProfile(profile, ensured) ==
    /\ pc = "idle"
    /\ _profile' = profile
    /\ _initialized' = initialize(ensured)
    /\ profileDirs' = IF ensured THEN profileDirs \cup {profile} ELSE profileDirs
    /\ called' = "setProfile"
    /\ outcome' = IF ensured THEN "ok" ELSE EnsureDirFailed
    /\ UNCHANGED <<extDiskVars, snippetVars, uiVars, jsoncVars, syncVars, profileVars, algVars, listVars, hostVars>>

\* FileRepository.listProfiles: the guard, then the directories are listed
ListProfiles ==
    /\ Idle
    /\ called' = "listProfiles"
    /\ outcome' = checkInitialized
    /\ ops' = ops + 1
    /\ UNCHANGED <<_profile, _initialized, extDiskVars, snippetVars, uiVars, jsoncVars, syncVars, pc, syncSettings,
                   resources, restart, reloadWindow, restored, answer, triggered, serialized, captured,
                   profileOthers>>

\* FileRepository.terminate: the guard and nothing else
Terminate ==
    /\ Idle
    /\ called' = "terminate"
    /\ outcome' = checkInitialized
    /\ ops' = ops + 1
    /\ UNCHANGED <<_profile, _initialized, extDiskVars, snippetVars, uiVars, jsoncVars, syncVars, pc, syncSettings,
                   resources, restart, reloadWindow, restored, answer, triggered, serialized, captured,
                   profileOthers>>

\* FileRepository.restoreProfile in the tree: where walking extends from the selected
\* profile never ends, the call does not return
TreeRestoreProfile ==
    /\ _initialized => ~Endless(_profile)
    /\ RestoreProfileFrom("restoreProfile")

\* FileRepository.download: restoreProfile
Download ==
    /\ _initialized => ~Endless(_profile)
    /\ RestoreProfileFrom("download")

\* FileRepository.upload: serializeProfile
Upload ==
    /\ _initialized => ~Endless(_profile)
    /\ SerializeProfileFrom("upload")

LifeNext ==
    \/ \E profile \in ProfileChoices, ensured \in BOOLEAN : SetProfile(profile, ensured)
    \/ \E originalProfile \in ProfileChoices, newProfile \in ProfileChoices :
           ExtendProfileTo(originalProfile, newProfile)
    \/ \E originalProfile \in ProfileChoices, newProfile \in ProfileChoices :
           DuplicateProfileTo(originalProfile, newProfile)
    \/ \E key \in WorkbenchKeys : \E value \in UIValues(key) \cup {Absent} : EditorState(key, value)
    \/ ListProfiles
    \/ Terminate
    \/ TreeSerializeProfile
    \/ Upload
    \/ TreeRestoreProfile
    \/ Download
    \/ \E result \in BOOLEAN : RestoreProfileConfirm(result)
    \/ \E failing \in HostFailures : RestoreProfileResource(failing)
    \/ RestoreProfileEnd

SpecLife == InitTree /\ [][LifeNext]_vars

\* the operations guarded by checkInitialized, download and upload through the operation
\* they call
PublicOperations ==
    {"restoreProfile", "serializeProfile", "download", "upload", "duplicateProfileTo", "extendProfileTo",
     "listProfiles", "terminate"}

\* the documents of the profile tree
treeDocs ==
    <<profileDirs, profileYml, extensionsYml, extensionsOldYml, snippetsDir, snippetsDiffYml, uiStateYml,
      uiStateDiffYml, profileSettingsJson, profileKeybindingsJson, syncYml, configYml>>

\* C21: a public operation other than setProfile called on a repository that was never
\* successfully initialized fails with the not-initialized error, and leaves the profile
\* tree, the editor and the host as they were.
C21_GuardBeforeIO ==
    [][~_initialized /\ called' \in PublicOperations /\ ops' = ops + 1 =>
           /\ outcome' = "The repository wasn't successfully initialized"
           /\ pc' = "idle"
           /\ UNCHANGED <<treeDocs, editorVars, issued>>]_vars

C21_Witness ==
    /\ ~_initialized
    /\ _profile # ""
    /\ called \in PublicOperations
    /\ outcome = "The repository wasn't successfully initialized"

\* C30: after a setProfile the initialized flag is true only if the initialize of that
\* setProfile succeeded, and a guarded operation that follows a failed setProfile fails
\* with the not-initialized error.
C30_InitializedMeansSucceeded ==
    /\ [][called' = "setProfile" => (_initialized' => outcome' = "ok")]_vars
    /\ [][called = "setProfile" /\ outcome # "ok" /\ called' \in PublicOperations =>
              outcome' = "The repository wasn't successfully initialized"]_vars

(***************************************************************************)
(* Redaction of the paths in the UI state: the store of the editor holds   *)
(* strings with the extension-data path, the home directory and the        *)
(* placeholder text in them, and the profiles A and B capture and restore  *)
(* them.                                                                   *)
(***************************************************************************)
\* the strings the editor writes under workbench.view
RedactionValues ==
    {String(<<"x">>),
     String(ExtDataPath \o <<"/x">>),
     String(ExtDataPath \o <<"/x:">> \o ExtDataPath \o <<"/y">>),
     String(HomeDirectory \o <<"/x">>),
     String(ExtDataPath \o <<"/x:">> \o HomeDirectory \o <<"/y">>),
     String(Placeholder \o <<"/x">>),
     String(ExtDataPath \o <<"/x:">> \o Placeholder \o <<"/y">>)}

RedactionNext ==
    \/ \E profile \in ProfileChoices : UIStateSetProfile(profile)
    \/ \E key \in WorkbenchKeys : \E value \in RedactionValues : UIStateWrite(key, value)
    \/ \E key \in WorkbenchKeys : UIStateDelete(key)
    \/ SerializeUIState
    \/ RestoreUIState

SpecRedaction == InitUIState /\ [][RedactionNext]_vars

\* C22: a restoreUIState that follows the serializeUIState of the same store leaves every
\* string value that contains the extension-data path in the store exactly as it was
\* when it was captured.
C22_RedactionReversible ==
    [][called = "serializeUIState" /\ called' = "restoreUIState" =>
           \A key \in DOMAIN stateDB :
               IsStringValue(stateDB[key]) /\ includes(stateDB[key], ExtDataPath) =>
                   key \in DOMAIN stateDB' /\ stateDB'[key] = stateDB[key]]_vars

\* the string values of the properties
StringsOf(properties) ==
    {properties[key] : key \in {k \in DOMAIN properties : IsStringValue(properties[k])}}

\* the values the UI-state documents of the profiles hold
StoredUIStrings ==
    UNION {IF Exists(uiStateYml[p]) THEN StringsOf(uiStateYml[p]) ELSE {} : p \in Profiles}
    \cup UNION {IF Exists(uiStateDiffYml[p]) THEN StringsOf(uiStateDiffYml[p].modified) ELSE {} : p \in Profiles}

\* what serializeUIState captured for the selected profile: its ui-state.yml for a root,
\* the modified map of the diff it computed for an inheriting profile
CapturedUIState == IF profileYml[_profile] = "" THEN uiStateYml[_profile] ELSE uiDiff.modified

\* the keys of the store, the rows serializeUIState reads, whose string value satisfies Test
LiveKeys(Test(_)) ==
    {key \in DOMAIN stateDB \cap WorkbenchKeys : IsStringValue(stateDB[key]) /\ Test(stateDB[key])}

\* C23 as stated: every live string value that contains the home directory, also as the
\* prefix of the extension-data path only, is dropped by the capture, and no stored value
\* contains the home directory.
C23_HomeDirectoryDropped ==
    /\ called = "serializeUIState" =>
           \A key \in LiveKeys(LAMBDA value : includes(value, HomeDirectory)) :
               key \notin DOMAIN CapturedUIState
    /\ \A value \in StoredUIStrings : ~includes(value, HomeDirectory)

\* C23 as the code has it: a live string value that still contains the home directory
\* once the extension-data path is replaced by the placeholder is dropped by the capture,
\* any other is captured with the placeholder, and no stored value contains the home
\* directory.
C23_HomeDirectoryOutsideDropped ==
    /\ called = "serializeUIState" =>
           /\ \A key \in LiveKeys(LAMBDA value :
                             includes(replaceAll(value, ExtDataPath, Placeholder), HomeDirectory)) :
                  key \notin DOMAIN CapturedUIState
           /\ \A key \in DOMAIN CapturedUIState \cap LiveKeys(LAMBDA value : TRUE) :
                  CapturedUIState[key] = replaceAll(stateDB[key], ExtDataPath, Placeholder)
    /\ \A value \in StoredUIStrings : ~includes(value, HomeDirectory)

C23_Witness ==
    /\ called = "serializeUIState"
    /\ "workbench.view" \in LiveKeys(LAMBDA value : includes(value, ExtDataPath)
                                      /\ includes(replaceAll(value, ExtDataPath, Placeholder), HomeDirectory))
    /\ "workbench.view" \notin DOMAIN CapturedUIState
    /\ StoredUIStrings # {}

\* C24: the effective UI state of a root is its ui-state.yml ({} when absent); that of an
\* inheriting profile with no diff document is its ancestor's; with a diff document it
\* has the ancestor's keys and the keys of modified, but for the keys of removed, each
\* with the value of modified where modified has it and the ancestor's value elsewhere.
C24_EffectiveUIState ==
    \A p \in Profiles :
        LET effective == listProfileUIStateProperties(p)
            diff == uiStateDiffYml[p]
        IN IF profileYml[p] = ""
           THEN effective = IF Exists(uiStateYml[p]) THEN uiStateYml[p] ELSE << >>
           ELSE LET inherited == listProfileUIStateProperties(profileYml[p])
                IN IF ~Exists(diff)
                   THEN effective = inherited
                   ELSE /\ DOMAIN effective
                               = (DOMAIN inherited \cup DOMAIN diff.modified) \ Range(diff.removed)
                        /\ \A key \in DOMAIN effective :
                               effective[key] = IF key \in DOMAIN diff.modified
                                                THEN diff.modified[key]
                                                ELSE inherited[key]

C24_Witness ==
    /\ Exists(uiStateYml["A"])
    /\ Exists(uiStateDiffYml["B"])
    /\ uiStateDiffYml["B"].removed # << >>
    /\ Exists(uiStateDiffYml["C"])
    /\ DOMAIN uiStateDiffYml["C"].modified # {}
    /\ listProfileUIStateProperties("C") # listProfileUIStateProperties("B")
    /\ listProfileUIStateProperties("B") # listProfileUIStateProperties("A")

(***************************************************************************)
(* The baseline of the key bindings and of the settings.  The trees are    *)
(* those extendProfileTo makes of profiles that were serialized as roots:  *)
(* any profile may hold a settings.json and key bindings of its own, each  *)
(* marked with the name of the profile.                                    *)
(***************************************************************************)
AncestorTrees ==
    {Chain,
     [p \in Profiles |-> IF p = "A" THEN "" ELSE "A"],
     [p \in Profiles |-> IF p = "C" THEN "B" ELSE ""]}

\* the policy document of a profile serialized with resources set
AncestorPolicy == "resources" :> <<"keybindings", "settings">>

AncestorInit ==
    /\ profileYml \in AncestorTrees
    /\ \E holders \in SUBSET Profiles :
           /\ profileSettingsJson = [p \in Profiles |-> IF p \in holders
                                                        THEN Document("editor.fontSize" :> p, FALSE)
                                                        ELSE Absent]
           /\ profileKeybindingsJson = [p \in Profiles |-> IF p \in holders
                                                           THEN getProfileKeybindingsPath(TRUE)
                                                                    :> Document("ctrl+k" :> p, FALSE)
                                                           ELSE << >>]
    /\ syncYml \in {[p \in Profiles |-> AncestorPolicy],
                    [p \in Profiles |-> IF profileYml[p] = "" THEN AncestorPolicy ELSE Absent]}
    /\ configYml = [p \in Profiles |-> Absent]
    /\ settingsJson = Document("editor.fontSize" :> "12", TRUE)
    /\ keybindingsJson = UserKeybindings
    /\ config = << >>
    /\ commands = TRUE

\* restoreKeybindings as restoreProfile calls it, with the ancestor of the selected profile
RestoreKeybindings ==
    /\ _initialized
    /\ LET result == restoreKeybindings(getAncestorProfile(_profile))
       IN /\ keybindingsJson' = result.keybindingsJson
          /\ outcome' = IF result.threw THEN SyncSettingsNotFound.threw ELSE "ok"
    /\ called' = "restoreKeybindings"
    /\ UNCHANGED <<_profile, _initialized, extDiskVars, snippetVars, uiVars, settingsJson, profileSettingsJson,
                   profileKeybindingsJson, syncVars, profileVars, profileOthers>>

\* restoreUserSettings as restoreProfile calls it, with the ancestor of the selected profile
RestoreUserSettings ==
    /\ _initialized
    /\ LET result == restoreUserSettings(getAncestorProfile(_profile))
       IN /\ settingsJson' = result.settingsJson
          /\ outcome' = IF result.threw THEN SyncSettingsNotFound.threw ELSE "ok"
    /\ called' = "restoreUserSettings"
    /\ UNCHANGED <<_profile, _initialized, extDiskVars, snippetVars, uiVars, keybindingsJson, profileSettingsJson,
                   profileKeybindingsJson, syncVars, profileVars, profileOthers>>

AncestorNext ==
    \/ \E profile \in Profiles : ProfileSetProfile(profile)
    \/ RestoreKeybindings
    \/ RestoreUserSettings

InitAncestor ==
    /\ AncestorInit /\ RepoOff /\ AlgOff /\ ListOff /\ ProfileOff /\ HostOff /\ TreeOff
    /\ extensionsYml = [p \in Profiles |-> Absent]
    /\ extensionsOldYml = [p \in Profiles |-> Absent]
    /\ SnippetsOff
    /\ editorExtensions = [id \in ExtIds |-> "absent"]
    /\ stateDB = << >>
    /\ uiStateYml = [p \in Profiles |-> Absent]
    /\ uiStateDiffYml = [p \in Profiles |-> Absent]
    /\ uiDiff = [modified |-> << >>, removed |-> << >>]

SpecAncestor == InitAncestor /\ [][AncestorNext]_vars

\* the profile without extends that following extends from the selected profile ends at
Terminal == Lineage(_profile)[Len(Lineage(_profile))]

\* C25: getAncestorProfile returns the profile with no extends reached by following
\* extends from the selected profile, and what restoreKeybindings and restoreUserSettings
\* write is the key bindings and the settings stored for that profile ([] and {} when it
\* stores none), whatever the profiles before it on the way store.
C25_BaselineOfTerminalProfile ==
    /\ [](_initialized => getAncestorProfile(_profile) = Terminal /\ profileYml[Terminal] = "")
    /\ [][called' = "restoreKeybindings" /\ outcome' = "ok" =>
              keybindingsJson' = IF profileKeybindingsJson[Terminal] # << >>
                                 THEN Document("ctrl+k" :> Terminal, FALSE)
                                 ELSE EmptyDocument]_vars
    /\ [][called' = "restoreUserSettings" /\ outcome' = "ok" =>
              settingsJson' = IF Exists(profileSettingsJson[Terminal])
                              THEN Document("editor.fontSize" :> Terminal, FALSE)
                              ELSE EmptyDocument]_vars

C25_Witness ==
    /\ called = "restoreUserSettings"
    /\ outcome = "ok"
    /\ _profile = "C"
    /\ Lineage(_profile) = <<"C", "B", "A">>
    /\ \A p \in Profiles : Exists(profileSettingsJson[p])
    /\ settingsJson = Document("editor.fontSize" :> "A", FALSE)

\* the hash index the claim gives a profile: the hashes of the files it effectively holds
EffectiveHashes(profile) ==
    [name \in DOMAIN EffectiveSnippets(profile) |-> SHA1(EffectiveSnippets(profile)[name])]

\* C26: listProfileSnippetHashes completes for every profile of the chain, also above a
\* removal diff written by serializeSnippets, and returns the ancestor's index without the
\* names of the profile's removal diff, overlaid by the hashes of the profile's own files;
\* serializeSnippets of an inheriting profile stores in the profile's own directory the
\* live files but for those whose hash equals the inherited one.
C26_SnippetHashIndex ==
    /\ \A p \in Profiles :
           /\ ~IsError(listProfileSnippetHashes(p))
           /\ listProfileSnippetHashes(p) = EffectiveHashes(p)
    /\ called = "serializeSnippets" /\ profileYml[_profile] # "" =>
           /\ outcome = "ok"
           /\ LET inherited == EffectiveHashes(profileYml[_profile])
              IN snippetsDir[_profile]
                     = [file \in {f \in DOMAIN editorSnippets :
                                     ~(f \in DOMAIN inherited /\ inherited[f] = SHA1(editorSnippets[f]))} |->
                           editorSnippets[file]]

\* C27: after a serializeProfile that completed, a sync-policy document is found along
\* the chain of the selected profile, and a restoreProfile that follows does not fail with
\* 'sync settings file of profile can not be found'.
C27_PolicyResolvableAfterSerialize ==
    /\ [](called = "serializeProfile" /\ outcome = "ok" => PolicyHolders # {})
    /\ [][called = "serializeProfile" /\ outcome = "ok" /\ called' = "restoreProfile" =>
              outcome' # "sync settings file of profile can not be found"]_vars

\* C28: after a serializeUIState of an inheriting profile, the effective UI state of the
\* profile is the live snapshot that serialize captured.
C28_EffectiveIsLastSnapshot ==
    called = "serializeUIState" /\ profileYml[_profile] # "" =>
        listProfileUIStateProperties(_profile) = listEditorUIStateProperties(listEditorExtensions({}))

\* C29: for an inheriting profile that had no removal diff before, a restoreSnippets that
\* follows a serializeSnippets leaves the live snippets directory with the files and the
\* contents it had when it was serialized.
C29_SnippetsRoundTrip ==
    [][/\ called = "serializeSnippets" /\ outcome = "ok"
       /\ profileYml[_profile] # ""
       /\ Exists(snippetsDiffYml[_profile]) => removed # << >>
       /\ called' = "restoreSnippets"
       => editorSnippets' = editorSnippets]_vars


====
